---- MODULE Spec2Model ----
(***************************************************************************)
(* Model of the generated-title cache of the calendar plugin               *)
(* (src/src/ollama/cache.ts) and of the plugin code that owns the cache    *)
(* store (src/src/main.ts, the list view in src/unnamed/part_004).         *)
(*                                                                         *)
(* JavaScript values are records [k, n, s]: k is the kind, n the value of  *)
(* a finite number, s the characters of a string.  A plain object with     *)
(* string keys enumerates its keys in insertion order, so a cache is a     *)
(* sequence of [key, val] pairs with pairwise distinct keys.  A string is  *)
(* a sequence of one-character strings.                                    *)
(***************************************************************************)
EXTENDS Integers, Sequences, FiniteSets, TLC

\* ---------------------------------------------------------------- bounds
\* Timestamps (lastUsed, nowMs) range over 0..MaxTime.
MaxTime == 2
\* A raw persisted mapping handed to sanitize has at most MaxRaw entries.
MaxRaw == 3
\* A raw keyword has at most MaxWord characters.
MaxWord == 4
\* A raw description has at most MaxText characters, or that many after a
\* run of letters that ends just before the cut of sanitizeDescription.
MaxText == 4
\* A note has at most MaxLines lines.
MaxLines == 4
\* A custom title typed or stored is made of at most MaxPieces pieces.
MaxPieces == 4
\* A persisted color-tag mapping has at most MaxTags entries.
MaxTags == 2
\* computeList is started at most MaxRuns times.
MaxRuns == 3
\* A run of computeList reads its files in at most MaxChunks chunks.
MaxChunks == 2

\* ------------------------------------------------------ JavaScript values
Undef == [k |-> "undefined", n |-> 0, s |-> <<>>]
Null == [k |-> "null", n |-> 0, s |-> <<>>]
NaN == [k |-> "nan", n |-> 0, s |-> <<>>]
Infinity == [k |-> "inf", n |-> 0, s |-> <<>>]
Num(i) == [k |-> "number", n |-> i, s |-> <<>>]
Str(chars) == [k |-> "string", n |-> 0, s |-> chars]

\* typeof v === "number" (NaN and Infinity are numbers)
IsNumber(v) == v.k \in {"number", "nan", "inf"}
\* Number.isFinite(v)
IsFinite(v) == v.k = "number"
\* typeof v === "string"
IsString(v) == v.k = "string"

\* \s restricted to the characters of the model
Whitespace == {" ", "\t", "\n", "\r"}

RECURSIVE TrimStart(_)
TrimStart(s) ==
  IF s = <<>> THEN <<>>
  ELSE IF Head(s) \in Whitespace THEN TrimStart(Tail(s)) ELSE s

RECURSIVE TrimEnd(_)
TrimEnd(s) ==
  IF s = <<>> THEN <<>>
  ELSE IF s[Len(s)] \in Whitespace THEN TrimEnd(SubSeq(s, 1, Len(s) - 1)) ELSE s

\* String.prototype.trim
Trim(s) == TrimEnd(TrimStart(s))

\* ------------------------------------------------------------ cache types
\* An object value of the mapping: { mtime, title, lastUsed }.  A field the
\* object lacks reads as undefined.
Obj(mtime, title, lastUsed) ==
  [k |-> "object", mtime |-> mtime, title |-> title, lastUsed |-> lastUsed]
\* A value of the mapping that is not an object (null, a number, a string).
Prim(kind) ==
  [k |-> kind, mtime |-> Undef, title |-> Undef, lastUsed |-> Undef]

\* File paths (non-numeric strings, enumerated in insertion order).
FilePaths == {"a.md", "b.md", "c.md"}

KeysOf(cache) == {cache[i].key : i \in 1..Len(cache)}
HasKey(cache, key) == \E i \in 1..Len(cache) : cache[i].key = key
Get(cache, key) == cache[CHOOSE i \in 1..Len(cache) : cache[i].key = key].val

\* { ...cache, [key]: val }: an existing key keeps its position, a new key
\* is appended.
SpreadSet(cache, key, val) ==
  IF HasKey(cache, key)
  THEN [i \in 1..Len(cache) |->
          IF cache[i].key = key THEN [key |-> key, val |-> val] ELSE cache[i]]
  ELSE Append(cache, [key |-> key, val |-> val])

\* delete obj[key] for every key of a set
DeleteKeys(cache, keys) == SelectSeq(cache, LAMBDA e : e.key \notin keys)

\* -------------------------------------------- src/src/ollama/cache.ts
\* A call of a cache function is modelled with its effect on the heap: ret
\* is the content of the returned object, arg the content of the object that
\* was passed in once the call has returned, alias whether the returned
\* object is the very object that was passed in.

\* SanitizeStep without the mtime < 0 test.
SanitizeStepAnyMtime(out, key, raw) ==
  IF raw.k # "object" THEN out
  ELSE IF ~IsString(raw.title) \/ Trim(raw.title.s) = <<>> THEN out
  ELSE LET mtime == IF IsNumber(raw.mtime) THEN raw.mtime ELSE NaN IN
       IF ~IsFinite(mtime) THEN out
       ELSE LET lastUsed == IF IsNumber(raw.lastUsed) /\ IsFinite(raw.lastUsed)
                            THEN raw.lastUsed ELSE Undef
            IN SpreadSet(out, key, Obj(mtime, raw.title, lastUsed))

\* SanitizeStep testing the title as written and storing it trimmed.
SanitizeStepTrimmedTitle(out, key, raw) ==
  IF raw.k # "object" THEN out
  ELSE IF ~IsString(raw.title) \/ raw.title.s = <<>> THEN out
  ELSE LET mtime == IF IsNumber(raw.mtime) THEN raw.mtime ELSE NaN IN
       IF ~IsFinite(mtime) \/ mtime.n < 0 THEN out
       ELSE LET lastUsed == IF IsNumber(raw.lastUsed) /\ IsFinite(raw.lastUsed)
                            THEN raw.lastUsed ELSE Undef
            IN SpreadSet(out, key, Obj(mtime, Str(Trim(raw.title.s)), lastUsed))

\* SanitizeStep without the test of the title.
SanitizeStepAnyTitle(out, key, raw) ==
  IF raw.k # "object" THEN out
  ELSE LET mtime == IF IsNumber(raw.mtime) THEN raw.mtime ELSE NaN IN
       IF ~IsFinite(mtime) \/ mtime.n < 0 THEN out
       ELSE LET lastUsed == IF IsNumber(raw.lastUsed) /\ IsFinite(raw.lastUsed)
                            THEN raw.lastUsed ELSE Undef
            IN SpreadSet(out, key, Obj(mtime, raw.title, lastUsed))

\* The loop body of sanitizeOllamaTitleCache for one [key, raw] pair: out
\* extended, or out itself when the pair is skipped.
SanitizeStep(out, key, raw) ==
  IF raw.k # "object" THEN out
  ELSE IF ~IsString(raw.title) \/ Trim(raw.title.s) = <<>> THEN out
  ELSE LET mtime == IF IsNumber(raw.mtime) THEN raw.mtime ELSE NaN IN
       IF ~IsFinite(mtime) \/ mtime.n < 0 THEN out
       ELSE LET lastUsed == IF IsNumber(raw.lastUsed) /\ IsFinite(raw.lastUsed)
                            THEN raw.lastUsed ELSE Undef
            IN SpreadSet(out, key, Obj(mtime, raw.title, lastUsed))

RECURSIVE SanitizeLoop(_, _)
SanitizeLoop(entries, out) ==
  IF entries = <<>> THEN out
  ELSE SanitizeLoop(Tail(entries),
                    SanitizeStep(out, Head(entries).key, Head(entries).val))

\* sanitizeOllamaTitleCache(value); value is [k, map]: the kind of the raw
\* value and, for an object, its entries.
sanitizeOllamaTitleCache(value) ==
  IF value.k # "object"
  THEN [ret |-> <<>>, arg |-> value, alias |-> FALSE]
  ELSE [ret |-> SanitizeLoop(value.map, <<>>), arg |-> value, alias |-> FALSE]

\* The sort key prune gives an entry: its lastUsed when that is a finite
\* number, else 0.
SortKey(val) ==
  IF IsNumber(val.lastUsed) /\ IsFinite(val.lastUsed) THEN val.lastUsed.n ELSE 0

\* InsertStable for the comparator b.lastUsed - a.lastUsed.
RECURSIVE InsertStableDescending(_, _)
InsertStableDescending(sorted, x) ==
  IF sorted = <<>> THEN <<x>>
  ELSE IF sorted[Len(sorted)].lastUsed >= x.lastUsed THEN Append(sorted, x)
  ELSE Append(InsertStableDescending(SubSeq(sorted, 1, Len(sorted) - 1), x),
              sorted[Len(sorted)])

\* One insertion of a stable ascending sort: x goes after every element
\* whose sort key is not larger.
RECURSIVE InsertStable(_, _)
InsertStable(sorted, x) ==
  IF sorted = <<>> THEN <<x>>
  ELSE IF sorted[Len(sorted)].lastUsed <= x.lastUsed THEN Append(sorted, x)
  ELSE Append(InsertStable(SubSeq(sorted, 1, Len(sorted) - 1), x),
              sorted[Len(sorted)])

\* sortable.sort((a, b) => a.lastUsed - b.lastUsed), a stable sort
RECURSIVE SortByLastUsed(_)
SortByLastUsed(sortable) ==
  IF sortable = <<>> THEN <<>>
  ELSE InsertStable(SortByLastUsed(SubSeq(sortable, 1, Len(sortable) - 1)),
                    sortable[Len(sortable)])

\* ToDelete slicing keys.length - max - 1 keys.
ToDeleteOneShort(cache, max) ==
  LET sortable == [i \in 1..Len(cache) |->
                     [key |-> cache[i].key, lastUsed |-> SortKey(cache[i].val)]]
      sorted == SortByLastUsed(sortable)
      wanted == IF Len(cache) - max - 1 > 0 THEN Len(cache) - max - 1 ELSE 0
      count == IF wanted > Len(sorted) THEN Len(sorted) ELSE wanted
  IN {sorted[i].key : i \in 1..count}

\* The keys prune deletes from a cache of more than max entries.
ToDelete(cache, max) ==
  LET sortable == [i \in 1..Len(cache) |->
                     [key |-> cache[i].key, lastUsed |-> SortKey(cache[i].val)]]
      sorted == SortByLastUsed(sortable)
      \* slice(0, Math.max(0, keys.length - max)) stops at the end of the array
      wanted == IF Len(cache) - max > 0 THEN Len(cache) - max ELSE 0
      count == IF wanted > Len(sorted) THEN Len(sorted) ELSE wanted
  IN {sorted[i].key : i \in 1..count}

\* prune deleting from the object it was given instead of a copy.
pruneInPlace(cache, maxEntries) ==
  LET max == IF IsNumber(maxEntries) THEN maxEntries ELSE Undef
      same == [ret |-> cache, arg |-> cache, alias |-> TRUE]
  IN IF max.k \in {"undefined", "nan"} \/ (max.k = "number" /\ max.n <= 0)
     THEN same
     ELSE IF max.k = "inf" \/ Len(cache) <= max.n THEN same
     ELSE LET toDelete == ToDelete(cache, max.n) IN
          IF toDelete = {} THEN same
          ELSE [ret |-> DeleteKeys(cache, toDelete),
                arg |-> DeleteKeys(cache, toDelete), alias |-> TRUE]

\* prune testing only !max, so that a negative bound is enforced.
pruneNegativeBound(cache, maxEntries) ==
  LET max == IF IsNumber(maxEntries) THEN maxEntries ELSE Undef
      same == [ret |-> cache, arg |-> cache, alias |-> TRUE]
  IN IF max.k \in {"undefined", "nan"} \/ (max.k = "number" /\ max.n = 0)
     THEN same
     ELSE IF max.k = "inf" \/ Len(cache) <= max.n THEN same
     ELSE LET toDelete == ToDelete(cache, max.n) IN
          IF toDelete = {} THEN same
          ELSE [ret |-> DeleteKeys(cache, toDelete), arg |-> cache,
                alias |-> FALSE]

\* pruneOllamaTitleCache(cache, maxEntries)
pruneOllamaTitleCache(cache, maxEntries) ==
  LET max == IF IsNumber(maxEntries) THEN maxEntries ELSE Undef
      same == [ret |-> cache, arg |-> cache, alias |-> TRUE]
  IN IF max.k \in {"undefined", "nan"} \/ (max.k = "number" /\ max.n <= 0)
     THEN same
     ELSE IF max.k = "inf" \/ Len(cache) <= max.n THEN same
     ELSE LET toDelete == ToDelete(cache, max.n) IN
          IF toDelete = {} THEN same
          ELSE [ret |-> DeleteKeys(cache, toDelete), arg |-> cache,
                alias |-> FALSE]

\* upsertOllamaTitleCacheEntry({cache, filePath, entry, maxEntries, nowMs});
\* now is nowMs, or the clock's reading when the caller passes none.
upsertOllamaTitleCacheEntry(cache, filePath, entry, maxEntries, now) ==
  LET next == SpreadSet(cache, filePath, Obj(entry.mtime, entry.title, now))
      pruned == pruneOllamaTitleCache(next, maxEntries)
  IN [ret |-> pruned.ret, arg |-> cache, alias |-> FALSE]

\* ---------------------------------- the cache functions on untyped values
\* A call that returned ret, or threw.
Returned(ret) == [threw |-> FALSE, ret |-> ret]
Thrown == [threw |-> TRUE, ret |-> [k |-> "undefined", map |-> <<>>]]

\* Object.keys(value) throws a TypeError for null and undefined; a number
\* has no keys.
KeysThrow(value) == value.k \in {"null", "undefined"}

\* pruneOllamaTitleCache(value, maxEntries) for a value of any kind
pruneOfValue(value, maxEntries) ==
  LET max == IF IsNumber(maxEntries) THEN maxEntries ELSE Undef IN
  IF max.k \in {"undefined", "nan"} \/ (max.k = "number" /\ max.n <= 0)
    THEN Returned(value)
  ELSE IF KeysThrow(value) THEN Thrown
  ELSE IF value.k # "object" THEN Returned(value)
  ELSE Returned([k |-> "object",
                 map |-> pruneOllamaTitleCache(value.map, maxEntries).ret])

\* upsertOllamaTitleCacheEntry({cache: value, ...}) for a value of any kind:
\* null and undefined are replaced by {}, a number spreads to nothing.
upsertOfValue(value, filePath, entry, maxEntries, now) ==
  LET spread == IF value.k = "object" THEN value.map ELSE <<>> IN
  Returned([k |-> "object",
            map |-> upsertOllamaTitleCacheEntry(spread, filePath, entry,
                                                maxEntries, now).ret])

\* sanitizeOllamaTitleCache(value) for a value of any kind
sanitizeOfValue(value) ==
  Returned([k |-> "object", map |-> sanitizeOllamaTitleCache(value).ret])

\* ------------------------------------------------ src/src/ollama/title.ts
\* The characters of the model that \p{L} and \p{N} match; every other
\* character of the model (punctuation, "-", whitespace) is matched by
\* [^\p{L}\p{N}].
LettersAndNumbers ==
  {"a", "b", "c", "d", "p", "w", "x", "y", "F",
   "0", "1", "2", "5", "6", "7"}
\* [\r\n\t] restricted to the characters of the model
LineOrTab == {"\r", "\n", "\t"}
\* [.!?]
TerminalPunctuation == {".", "!", "?"}

RECURSIVE DropWhile(_, _)
DropWhile(s, set) ==
  IF s = <<>> THEN <<>>
  ELSE IF Head(s) \in set THEN DropWhile(Tail(s), set) ELSE s

\* s.replace(/[set]+/g, " "): every maximal run becomes one space, that is,
\* a character of the set becomes a space when it starts a run and is
\* dropped when it continues one.
ReplaceRuns(s, set) ==
  LET marked ==
        [i \in 1..Len(s) |->
          [c |-> IF s[i] \in set THEN " " ELSE s[i],
           continues |-> i > 1 /\ s[i] \in set /\ s[i - 1] \in set]]
      kept == SelectSeq(marked, LAMBDA m : ~m.continues)
  IN [i \in 1..Len(kept) |-> kept[i].c]

\* text.split(/\r?\n/): the lines of a text; a line break is a line feed,
\* with the carriage return before it when there is one.
RECURSIVE SplitFrom(_, _, _)
SplitFrom(s, i, line) ==
  IF i > Len(s) THEN <<line>>
  ELSE IF s[i] = "\n" THEN <<line>> \o SplitFrom(s, i + 1, <<>>)
  ELSE IF s[i] = "\r" /\ i < Len(s) /\ s[i + 1] = "\n"
    THEN <<line>> \o SplitFrom(s, i + 2, <<>>)
  ELSE SplitFrom(s, i + 1, Append(line, s[i]))

SplitLines(s) == SplitFrom(s, 1, <<>>)

\* lines.join("\n")
RECURSIVE JoinLines(_)
JoinLines(lines) ==
  IF lines = <<>> THEN <<>>
  ELSE IF Len(lines) = 1 THEN lines[1]
  ELSE lines[1] \o <<"\n">> \o JoinLines(Tail(lines))

Fence == <<"-", "-", "-">>

stripYamlFrontmatterToLastFence(text) ==
  LET lines == SplitLines(text)
      closing == {i \in 2..Len(lines) : Trim(lines[i]) = Fence}
  IN
  IF text = <<>> THEN <<>>
  ELSE IF Len(lines) < 3 \/ Trim(lines[1]) # Fence THEN text
  ELSE IF closing = {} THEN text
  ELSE LET i == CHOOSE c \in closing : \A d \in closing : d <= c
       IN JoinLines(SubSeq(lines, i + 1, Len(lines)))

stripYamlFrontmatter(text) ==
  LET lines == SplitLines(text)
      closing == {i \in 2..Len(lines) : Trim(lines[i]) = Fence}
  IN
  IF text = <<>> THEN <<>>
  ELSE IF Len(lines) < 3 \/ Trim(lines[1]) # Fence THEN text
  ELSE IF closing = {} THEN text
  ELSE LET i == CHOOSE c \in closing : \A d \in closing : c <= d
       IN JoinLines(SubSeq(lines, i + 1, Len(lines)))

\* maxChars of prepareNoteTextForOllama is a positive finite number.
Truncates(maxChars) == IsFinite(maxChars) /\ maxChars.n > 0

prepareNoteTextOneMore(text, maxChars) ==
  LET stripped == stripYamlFrontmatter(text)
      collapsed == Trim(ReplaceRuns(stripped, Whitespace))
  IN
  IF ~Truncates(maxChars) THEN collapsed
  ELSE IF Len(collapsed) > maxChars.n
    THEN SubSeq(collapsed, 1, maxChars.n + 1)
  ELSE collapsed

prepareNoteTextForOllama(text, maxChars) ==
  LET stripped == stripYamlFrontmatter(text)
      collapsed == Trim(ReplaceRuns(stripped, Whitespace))
  IN
  IF ~Truncates(maxChars) THEN collapsed
  ELSE IF Len(collapsed) > maxChars.n THEN SubSeq(collapsed, 1, maxChars.n)
  ELSE collapsed

\* s.replace(/^[^\p{L}\p{N}]+/gu, "")
RECURSIVE DropLeadingNonWord(_)
DropLeadingNonWord(s) ==
  IF s = <<>> THEN <<>>
  ELSE IF Head(s) \notin LettersAndNumbers THEN DropLeadingNonWord(Tail(s))
  ELSE s

\* s.replace(/[^\p{L}\p{N}]+$/gu, "")
RECURSIVE DropTrailingNonWord(_)
DropTrailingNonWord(s) ==
  IF s = <<>> THEN <<>>
  ELSE IF s[Len(s)] \notin LettersAndNumbers
       THEN DropTrailingNonWord(SubSeq(s, 1, Len(s) - 1))
  ELSE s

\* s.split(" ")[0]
RECURSIVE FirstSegment(_)
FirstSegment(s) ==
  IF s = <<>> \/ Head(s) = " " THEN <<>>
  ELSE <<Head(s)>> \o FirstSegment(Tail(s))

\* sanitizeWord(word)
sanitizeWord(word) ==
  LET cleaned ==
        ReplaceRuns(
          DropTrailingNonWord(
            DropLeadingNonWord(Trim(ReplaceRuns(word, LineOrTab)))),
          Whitespace)
  IN FirstSegment(cleaned)

\* const MAX = 120 of sanitizeDescription
MAX == 120

\* The length of the run of [.!?] that ends s.
RECURSIVE TrailingPunctuation(_)
TrailingPunctuation(s) ==
  IF s = <<>> \/ s[Len(s)] \notin TerminalPunctuation THEN 0
  ELSE 1 + TrailingPunctuation(SubSeq(s, 1, Len(s) - 1))

\* s.replace(/[.!?]{2,}$/g, ".")
CollapseTrailingPunctuation(s) ==
  LET run == TrailingPunctuation(s) IN
  IF run >= 2 THEN SubSeq(s, 1, Len(s) - run) \o <<".">> ELSE s

\* sanitizeDescription without the cut at MAX characters
sanitizeDescriptionUncut(desc) ==
  CollapseTrailingPunctuation(
    ReplaceRuns(Trim(ReplaceRuns(desc, LineOrTab)), Whitespace))

\* sanitizeDescription(desc)
sanitizeDescription(desc) ==
  LET collapsed == ReplaceRuns(Trim(ReplaceRuns(desc, LineOrTab)), Whitespace)
      cut == IF Len(collapsed) > MAX
             THEN Trim(SubSeq(collapsed, 1, MAX)) ELSE collapsed
  IN CollapseTrailingPunctuation(cut)

\* A parsed JSON value as parseDailyTitleParts reads it: its type, and for
\* an object its keywords (an array of values, or something else) and its
\* description.
JsonValue(kind, keywords, description) ==
  [k |-> kind, keywords |-> keywords, description |-> description]
Array(items) == [k |-> "array", items |-> items]
NoArray(kind) == [k |-> kind, items |-> <<>>]
JsonNull == JsonValue("null", NoArray("undefined"), Undef)

\* DailyTitleParts | null
Parts(keywords, description) ==
  [ok |-> TRUE, keywords |-> keywords, description |-> description]
NoParts == [ok |-> FALSE, keywords |-> <<>>, description |-> <<>>]

\* rawKeywords.map((k) => typeof k === "string" ? sanitizeWord(k) : "")
\*            .filter(Boolean)
RECURSIVE SanitizedWords(_)
SanitizedWords(items) ==
  IF items = <<>> THEN <<>>
  ELSE LET word == IF IsString(Head(items)) THEN sanitizeWord(Head(items).s)
                   ELSE <<>>
       IN (IF word = <<>> THEN <<>> ELSE <<word>>)
            \o SanitizedWords(Tail(items))

\* parseDailyTitleParts that pads a short keyword list instead of failing
parseDailyTitlePartsPartial(value) ==
  IF value.k # "object" THEN NoParts
  ELSE IF value.keywords.k # "array" \/ ~IsString(value.description)
  THEN NoParts
  ELSE LET words == SanitizedWords(value.keywords.items)
           description == sanitizeDescription(value.description.s)
       IN IF description = <<>> THEN NoParts
          ELSE Parts(SubSeq(words, 1, IF Len(words) < 3 THEN Len(words) ELSE 3),
                     description)

\* parseDailyTitleParts(value)
parseDailyTitleParts(value) ==
  IF value.k # "object" THEN NoParts
  ELSE IF value.keywords.k # "array" \/ ~IsString(value.description)
  THEN NoParts
  ELSE LET words == SanitizedWords(value.keywords.items) IN
       IF Len(words) < 3 THEN NoParts
       ELSE LET description == sanitizeDescription(value.description.s) IN
            IF description = <<>> THEN NoParts
            ELSE Parts(SubSeq(words, 1, 3), description)

\* parts.keywords.join(" ")
RECURSIVE JoinWords(_)
JoinWords(words) ==
  IF words = <<>> THEN <<>>
  ELSE IF Len(words) = 1 THEN words[1]
  ELSE words[1] \o <<" ">> \o JoinWords(Tail(words))

\* A label with the keywords run together
formatWithoutSpaces(dateStr, parts) ==
  dateStr \o <<" ", "-", " ">>
          \o parts.keywords[1] \o parts.keywords[2] \o parts.keywords[3]
          \o <<" ", "-", " ">> \o parts.description

\* formatDailyTitleLabel(dateStr, parts)
formatDailyTitleLabel(dateStr, parts) ==
  dateStr \o <<" ", "-", " ">> \o JoinWords(parts.keywords)
          \o <<" ", "-", " ">> \o parts.description

\* ------------------------------ customListTitles (listItemColorTags.test.ts)
Digits == {"0", "1", "2", "3", "4", "5", "6", "7", "8", "9"}

\* DATE_KEY_RE = /^\d{4}-\d{2}-\d{2}$/
IsDateKey(key) ==
  /\ Len(key) = 10
  /\ \A i \in {1, 2, 3, 4, 6, 7, 9, 10} : key[i] \in Digits
  /\ key[5] = "-" /\ key[8] = "-"

\* collapseWhitespace(s)
collapseWhitespace(s) ==
  Trim(ReplaceRuns(ReplaceRuns(s, LineOrTab), Whitespace))

\* s.startsWith(prefix)
StartsWith(s, prefix) ==
  Len(s) >= Len(prefix) /\ SubSeq(s, 1, Len(prefix)) = prefix

\* [\s\-–—:|]: whitespace, hyphen, en dash, em dash, colon, pipe.
\* The two dashes beyond ASCII are written by their escapes.
Separators == Whitespace \cup {"-", "\\u2013", "\\u2014", ":", "|"}

\* The maxLen used when args.maxLen is no positive number
DefaultMaxLen == 240

\* s.length > maxLen for the maxLen in effect
Exceeds(s, maxLen) ==
  IF maxLen.k = "inf" THEN FALSE
  ELSE IF maxLen.k = "number" /\ maxLen.n > 0 THEN Len(s) > maxLen.n
  ELSE Len(s) > DefaultMaxLen

\* s.slice(0, maxLen) for the maxLen in effect, when s.length > maxLen
SliceTo(s, maxLen) ==
  SubSeq(s, 1, IF maxLen.k = "number" /\ maxLen.n > 0
                 THEN maxLen.n ELSE DefaultMaxLen)

\* A cut at maxLen that keeps the blank it ends with
normalizeWithoutFinalTrim(dateStr, input, maxLen) ==
  LET collapsed == collapseWhitespace(input)
      s == IF dateStr # <<>> /\ StartsWith(collapsed, dateStr)
             THEN Trim(DropWhile(SubSeq(collapsed, Len(dateStr) + 1,
                                        Len(collapsed)), Separators))
             ELSE collapsed
  IN IF collapsed = <<>> \/ s = <<>> THEN <<>>
     ELSE IF Exceeds(s, maxLen) THEN SliceTo(s, maxLen)
     ELSE s

\* normalizeCustomListTitleInput({ dateStr, input, maxLen })
normalizeCustomListTitleInput(dateStr, input, maxLen) ==
  LET collapsed == collapseWhitespace(input)
      s == IF dateStr # <<>> /\ StartsWith(collapsed, dateStr)
             THEN Trim(DropWhile(SubSeq(collapsed, Len(dateStr) + 1,
                                        Len(collapsed)), Separators))
             ELSE collapsed
  IN IF collapsed = <<>> \/ s = <<>> THEN <<>>
     ELSE IF Exceeds(s, maxLen) THEN Trim(SliceTo(s, maxLen))
     ELSE s

\* One turn of the loop of sanitizeCustomListTitles.
CustomTitleStep(out, rawKey, rawVal) ==
  LET key == Trim(rawKey) IN
  IF key = <<>> \/ ~IsDateKey(key) THEN out
  ELSE IF ~IsString(rawVal) THEN out
  ELSE LET suffix == normalizeCustomListTitleInput(key, rawVal.s, Undef) IN
       IF suffix = <<>> THEN out
       ELSE SpreadSet(out, key, Str(suffix))

RECURSIVE CustomTitleLoop(_, _)
CustomTitleLoop(entries, out) ==
  IF entries = <<>> THEN out
  ELSE CustomTitleLoop(Tail(entries),
                       CustomTitleStep(out, Head(entries).key,
                                       Head(entries).val))

\* sanitizeCustomListTitles(value)
sanitizeCustomListTitles(value) ==
  IF value.k # "object" THEN <<>>
  ELSE CustomTitleLoop(value.map, <<>>)

\* ------------------------------------- listItemColorTags (unnamed/part_001)
DayPrefix == <<"d", "a", "y", ":">>
FilePrefix == <<"f", "i", "l", "e", ":">>

\* DAY_KEY_RE = /^day:\d{4}-\d{2}-\d{2}$/
IsDayKey(key) ==
  /\ Len(key) = 14
  /\ SubSeq(key, 1, 4) = DayPrefix
  /\ IsDateKey(SubSeq(key, 5, 14))

\* The line terminators, which `.` does not match
LineTerminators == {"\n", "\r"}

\* FILE_KEY_RE = /^file:.+$/
IsFileKey(key) ==
  /\ Len(key) > 5
  /\ SubSeq(key, 1, 5) = FilePrefix
  /\ \A i \in 6..Len(key) : key[i] \notin LineTerminators

LowerHex == {"a", "b", "c", "d", "e", "f"}
UpperHex == {"A", "B", "C", "D", "E", "F"}

\* HEX_COLOR_RE = /^#(?:[0-9a-fA-F]{3}|[0-9a-fA-F]{6})$/
IsHexColor(s) ==
  /\ Len(s) \in {4, 7}
  /\ s[1] = "#"
  /\ \A i \in 2..Len(s) : s[i] \in Digits \cup LowerHex \cup UpperHex

\* expandHex3ToHex6(hex3)
expandHex3ToHex6(hex3) ==
  <<"#", hex3[2], hex3[2], hex3[3], hex3[3], hex3[4], hex3[4]>>

\* c.toLowerCase() for a character of a color
LowerChar(c) ==
  CASE c = "A" -> "a" [] c = "B" -> "b" [] c = "C" -> "c"
    [] c = "D" -> "d" [] c = "E" -> "e" [] c = "F" -> "f"
    [] OTHER -> c

\* A color that keeps the case it was written in
normalizeListItemColorKeepCase(input) ==
  LET s == Trim(input) IN
  IF ~IsHexColor(s) THEN <<>>
  ELSE IF Len(s) = 4 THEN expandHex3ToHex6(s) ELSE s

\* normalizeListItemColor(input)
normalizeListItemColor(input) ==
  LET s == Trim(input) IN
  IF ~IsHexColor(s) THEN <<>>
  ELSE LET normalized == IF Len(s) = 4 THEN expandHex3ToHex6(s) ELSE s
       IN [i \in 1..Len(normalized) |-> LowerChar(normalized[i])]

\* One turn of the loop of sanitizeListItemColorTags.
ColorTagStep(out, rawKey, rawVal) ==
  LET key == Trim(rawKey) IN
  IF key = <<>> THEN out
  ELSE IF ~(IsDayKey(key) \/ IsFileKey(key)) THEN out
  ELSE IF ~IsString(rawVal) THEN out
  ELSE LET color == normalizeListItemColor(rawVal.s) IN
       IF color = <<>> THEN out
       ELSE SpreadSet(out, key, color)

RECURSIVE ColorTagLoop(_, _)
ColorTagLoop(entries, out) ==
  IF entries = <<>> THEN out
  ELSE ColorTagLoop(Tail(entries),
                    ColorTagStep(out, Head(entries).key, Head(entries).val))

\* sanitizeListItemColorTags(value)
sanitizeListItemColorTags(value) ==
  IF value.k # "object" THEN <<>>
  ELSE ColorTagLoop(value.map, <<>>)

\* ------------------------------------------------- calls of the functions
VARIABLES
  cache,  \* the cache object the caller holds (the last returned one)
  last    \* the last call: operation, arguments, heap effect and result

\* The plugin (src/src/main.ts) and its list view (src/unnamed/part_004).
VARIABLES
  phase,             \* "start" before onload, then "loaded", then "unloaded"
  ollamaTitleCache,  \* the value of the ollamaTitleCache store
  options,           \* this.options: the ollamaTitleCacheMaxEntries setting
  saveDataTimer,     \* TRUE while the debounced save is pending
  disk,              \* the plugin data loadData returns and saveData writes
  clock              \* what Date.now() returns next

\* The list view (src/unnamed/part_004) and the vault it shows.
VARIABLES
  ollamaTitlesEnabled,  \* $settings.ollamaTitlesEnabled
  fileMtime,            \* file.stat.mtime of each daily note in the vault
  listItems,            \* item.mtime of the list item of each daily note
  titleInFlight,        \* titleInFlight[filePath]: absent, true or false
  requests              \* the generations that await their response, per path

\* parseDailyTitleParts applied to a value (src/src/ollama/title.ts).
VARIABLES
  titleValue,  \* the argument
  titleParts   \* whether the function has been applied, and its result

\* prepareNoteTextForOllama applied to a note (src/src/ollama/title.ts).
VARIABLES
  noteText,      \* the text of the note
  noteMaxChars,  \* the maxChars argument
  noteResult     \* whether the function has been applied, and its results

\* normalizeCustomListTitleInput applied to an input, and the custom titles
\* across startups (src/src/listItemColorTags.test.ts, src/src/main.ts).
VARIABLES
  customInput,       \* args.input
  customMaxLen,      \* args.maxLen
  customResult,      \* whether the function has been applied, and its result
  customData,        \* customListTitles of the plugin data on disk
  customListTitles,  \* the value of the customListTitles store
  customLoaded       \* TRUE once loadOptions has set the store

\* sanitizeListItemColorTags applied to a value (src/unnamed/part_001).
VARIABLES
  tagsValue,  \* the argument
  tagsResult  \* whether the function has been applied, and its result

\* A cache function applied to an untyped value (src/src/ollama/cache.ts).
VARIABLES
  anyCache,  \* the value passed as the cache
  anyCall    \* the operation applied ("none" before), and how it ended

\* The runs of computeList of the list view (src/unnamed/part_004).
VARIABLES
  listComputeNonce,  \* the number of runs started
  listLoading,
  listError,         \* null, or the message of an error
  dayOpenState,      \* the paths whose item has an entry in the open-state
                     \* maps (yearOpenState, dayOpenState, dayChildOpenState)
  runs               \* each run: where it is, and the items it has collected

callVars == <<cache, last>>
viewVars ==
  <<ollamaTitlesEnabled, fileMtime, listItems, titleInFlight, requests>>
listVars ==
  <<listComputeNonce, listLoading, listError, dayOpenState, runs>>
pluginVars ==
  <<phase, ollamaTitleCache, options, saveDataTimer, disk, clock, viewVars,
    listVars>>
titleVars == <<titleValue, titleParts>>
noteVars == <<noteText, noteMaxChars, noteResult>>
normVars == <<customInput, customMaxLen, customResult>>
customVars == <<customData, customListTitles, customLoaded>>
tagVars == <<tagsValue, tagsResult>>
anyVars == <<anyCache, anyCall>>
pureVars == <<titleVars, noteVars, normVars, customVars, tagVars, anyVars>>
vars == <<callVars, pluginVars, pureVars>>

TitleX == Str(<<"x">>)
TitleY == Str(<<"y">>)

\* The timestamps a caller passes or a stored entry carries.
Times == {Num(t) : t \in 0..MaxTime}

\* Values a persisted mapping may hold under a key: the shapes the tests of
\* sanitizeOllamaTitleCache list (null, a mtime that is no number, an empty
\* title), the other ways a field can be wrong, and valid entries.
RawValues ==
  { Prim("null"),
    Obj(Str(<<"n">>), TitleX, Undef),
    Obj(Num(1), Str(<<>>), Undef),
    Obj(Num(1), Str(<<" ">>), Num(1)),
    Obj(Num(1), Undef, Undef),
    Obj(Num(-1), TitleX, Num(0)),
    Obj(Infinity, TitleX, Num(0)),
    Obj(Num(0), Str(<<" ", "x">>), Infinity) }
  \cup {Obj(Num(1), TitleX, t) : t \in Times}

\* Mappings of at most n entries with values from a set, in every key order.
RECURSIVE RawMaps(_, _)
RawMaps(n, values) ==
  IF n = 0 THEN {<<>>}
  ELSE LET shorter == RawMaps(n - 1, values) IN
       shorter \cup
       UNION {{Append(m, [key |-> key, val |-> v]) :
                 key \in FilePaths \ KeysOf(m), v \in values} :
              m \in {s \in shorter : Len(s) = n - 1}}

\* What loadData may hand to sanitize: an object, or something else.
RawInputs ==
  {[k |-> "object", map |-> m] : m \in RawMaps(MaxRaw, RawValues)}
  \cup {[k |-> kind, map |-> <<>>] : kind \in {"undefined", "null", "string"}}

\* The { mtime, title } a caller upserts.
Entries == {[mtime |-> Num(2), title |-> TitleY]}

\* maxEntries as callers pass it to prune, and to upsert.
PruneBounds == {Undef, NaN, Num(-1), Num(0), Num(1), Num(2)}
UpsertBounds == {Num(1), Num(2)}

NoRaw == [k |-> "undefined", map |-> <<>>]
NoEntry == [mtime |-> Undef, title |-> Undef]

Call(op, raw, rawAfter, in, r, max, key, entry, now) ==
  [op |-> op, raw |-> raw, rawAfter |-> rawAfter, in |-> in, inAfter |-> r.arg,
   ret |-> r.ret, alias |-> r.alias, max |-> max, key |-> key,
   entry |-> entry, now |-> now]

NoCall ==
  [op |-> "none", raw |-> NoRaw, rawAfter |-> NoRaw, in |-> <<>>,
   inAfter |-> <<>>, ret |-> <<>>, alias |-> FALSE, max |-> Undef,
   key |-> "", entry |-> NoEntry, now |-> Undef]

\* defaultSettings.ollamaTitleCacheMaxEntries, and the view's `?? 1000`
DefaultMaxEntries == 1000

\* The daily notes of the vault: the list has an item for each of them.
DailyNotes == {"a.md", "b.md"}

\* The list view before the list is computed: defaultSettings has generated
\* titles off, no item, no generation.
ViewIdle ==
  /\ ollamaTitlesEnabled = FALSE
  /\ fileMtime = [p \in DailyNotes |-> Num(1)]
  /\ listItems = [p \in DailyNotes |-> Undef]
  /\ titleInFlight = [p \in DailyNotes |-> "undefined"]
  /\ requests = [p \in DailyNotes |-> <<>>]

\* A run of computeList: pc is "unborn" before it starts, "awaiting" while
\* it awaits the reads of a chunk, "returned" at its end; chunk is the chunk
\* awaited, chunks their number, items the item.mtime collected per path.
NoRun ==
  [pc |-> "unborn", chunk |-> 0, chunks |-> 0,
   items |-> [p \in DailyNotes |-> Undef]]

\* No run of computeList has started.
ListIdle ==
  /\ listComputeNonce = 0
  /\ listLoading = FALSE
  /\ listError = Null
  /\ dayOpenState = {}
  /\ runs = [r \in 1..MaxRuns |-> NoRun]

\* The plugin that has not been loaded, with no plugin data.
PluginIdle ==
  /\ phase = "start"
  /\ ollamaTitleCache = <<>>
  /\ options = Num(DefaultMaxEntries)
  /\ saveDataTimer = FALSE
  /\ disk = [v2 |-> FALSE, max |-> Undef, cache |-> NoRaw]
  /\ clock = 0
  /\ ViewIdle
  /\ ListIdle

\* No value has been handed to parseDailyTitleParts.
TitleIdle ==
  /\ titleValue = JsonNull
  /\ titleParts = [called |-> FALSE, result |-> NoParts]

\* No note has been handed to prepareNoteTextForOllama.
NoNoteResult == [called |-> FALSE, stripped |-> <<>>, prepared |-> <<>>]

NoteIdle ==
  /\ noteText = <<>>
  /\ noteMaxChars = Undef
  /\ noteResult = NoNoteResult

\* No input has been handed to normalizeCustomListTitleInput.
NormalizeIdle ==
  /\ customInput = <<>>
  /\ customMaxLen = Undef
  /\ customResult = [called |-> FALSE, out |-> <<>>]

\* No custom titles on disk, none loaded.
CustomIdle ==
  /\ customData = [k |-> "undefined", map |-> <<>>]
  /\ customListTitles = <<>>
  /\ customLoaded = FALSE

\* No value has been handed to sanitizeListItemColorTags.
TagsIdle ==
  /\ tagsValue = [k |-> "undefined", map |-> <<>>]
  /\ tagsResult = [called |-> FALSE, out |-> <<>>]

\* No cache function has been applied to an untyped value.
AnyIdle ==
  /\ anyCache = [k |-> "undefined", map |-> <<>>]
  /\ anyCall = [op |-> "none", max |-> Undef, end |-> Returned(NoRaw)]

\* No function has been applied on its own.
PureIdle ==
  /\ TitleIdle
  /\ NoteIdle
  /\ NormalizeIdle
  /\ CustomIdle
  /\ TagsIdle
  /\ AnyIdle

Init ==
  /\ cache = <<>>
  /\ last = NoCall
  /\ PluginIdle
  /\ PureIdle

\* The cache is built from a raw persisted value.
Sanitize(value) ==
  /\ LET r == sanitizeOllamaTitleCache(value) IN
     /\ cache' = r.ret
     /\ last' = Call("sanitize", value, r.arg, <<>>,
                     [ret |-> r.ret, arg |-> <<>>, alias |-> r.alias],
                     Undef, "", NoEntry, Undef)
  /\ UNCHANGED <<pluginVars, pureVars>>

Prune(maxEntries) ==
  /\ LET r == pruneOllamaTitleCache(cache, maxEntries) IN
     /\ cache' = r.ret
     /\ last' = Call("prune", NoRaw, NoRaw, cache, r, maxEntries, "", NoEntry,
                     Undef)
  /\ UNCHANGED <<pluginVars, pureVars>>

Upsert(filePath, entry, maxEntries, now) ==
  /\ LET r == upsertOllamaTitleCacheEntry(cache, filePath, entry, maxEntries,
                                          now) IN
     /\ cache' = r.ret
     /\ last' = Call("upsert", NoRaw, NoRaw, cache, r, maxEntries, filePath,
                     entry, now)
  /\ UNCHANGED <<pluginVars, pureVars>>

\* The cache is loaded once, then pruned and upserted in any order.
Next ==
  \/ last.op = "none" /\ \E value \in RawInputs : Sanitize(value)
  \/ last.op # "none" /\ \E maxEntries \in PruneBounds : Prune(maxEntries)
  \/ last.op # "none" /\ \E filePath \in FilePaths, entry \in Entries,
        maxEntries \in UpsertBounds, now \in Times :
       Upsert(filePath, entry, maxEntries, now)

Spec == Init /\ [][Next]_vars

\* --------------------------------------- calls of prepareNoteTextForOllama
\* The lines of a note: fences, fences with blanks around them, other text.
NoteLines ==
  {<<"-", "-", "-">>, <<"-", "-", "-", " ">>, <<" ", "-", "-", "-">>,
   <<"a">>, <<"-", "-">>, <<>>}

LineBreaks == {<<"\n">>, <<"\r", "\n">>}

\* Every text of at least one and at most n lines.
RECURSIVE NoteTexts(_)
NoteTexts(n) ==
  IF n = 1 THEN NoteLines
  ELSE LET shorter == NoteTexts(n - 1) IN
       shorter \cup
       {t \o b \o l : t \in shorter, b \in LineBreaks, l \in NoteLines}

\* maxChars as a caller may pass it.
MaxCharsValues == {NaN, Infinity, Num(-1), Num(0), Num(2), Num(5)}

NoteInit ==
  /\ cache = <<>>
  /\ last = NoCall
  /\ PluginIdle
  /\ TitleIdle
  /\ noteText \in NoteTexts(MaxLines)
  /\ noteMaxChars = Undef
  /\ noteResult = NoNoteResult
  /\ NormalizeIdle
  /\ CustomIdle
  /\ TagsIdle
  /\ AnyIdle

\* prepareNoteTextForOllama is applied to the note; the result of its call
\* of stripYamlFrontmatter is kept with its own.
PrepareNote(maxChars) ==
  /\ ~noteResult.called
  /\ noteMaxChars' = maxChars
  /\ noteResult' =
       [called |-> TRUE, stripped |-> stripYamlFrontmatter(noteText),
        prepared |-> prepareNoteTextForOllama(noteText, maxChars)]
  /\ UNCHANGED <<noteText, callVars, pluginVars, titleVars, normVars,
                 customVars, tagVars, anyVars>>

NoteNext == \E maxChars \in MaxCharsValues : PrepareNote(maxChars)

NoteSpec == NoteInit /\ [][NoteNext]_vars

\* ------------------------------------------- calls of parseDailyTitleParts
\* Every string of at most n characters from a set.
RECURSIVE Strings(_, _)
Strings(chars, n) ==
  IF n = 0 THEN {<<>>}
  ELSE LET shorter == Strings(chars, n - 1) IN
       shorter \cup {Append(t, c) : t \in shorter, c \in chars}

\* n times the letter "a"
Letters(n) == [i \in 1..n |-> "a"]

\* Raw keywords: letters, punctuation, spaces and line breaks.
Words == Strings({"a", ",", " ", "\n"}, MaxWord)

\* Raw descriptions: short ones, and ones that reach the cut at MAX.
Texts ==
  LET tails == Strings({"a", " ", "\t", ".", "!"}, MaxText) IN
  tails \cup {Letters(MAX - 2) \o t : t \in tails}

\* obj.keywords: arrays in which one raw keyword varies, before or between
\* plain ones; arrays with too few strings; and values that are no array.
KeywordValues ==
  {Array(<<Str(w), Str(<<"b">>), Str(<<"c">>)>>) : w \in Words}
  \cup {Array(<<Str(<<"b">>), Str(w), Str(<<"c">>), Str(<<"d">>)>>) :
          w \in Words}
  \cup {Array(<<>>), Array(<<Str(<<"b">>), Str(<<"c">>)>>),
        Array(<<Num(0), Str(<<"b">>), Null, Str(<<"c">>)>>),
        Array(<<Num(0), Str(<<"b">>), Null, Str(<<"c">>), Str(<<"d">>)>>),
        NoArray("undefined"), NoArray("string")}

\* The values handed to parseDailyTitleParts: every keywords value with a
\* few descriptions, every description with a few keywords values, and
\* values that are no object.
TitleValues ==
  {JsonValue("object", k, d) :
     k \in KeywordValues,
     d \in {Str(<<"F", ".">>), Str(<<" ">>), Num(1), Undef}}
  \cup {JsonValue("object", k, Str(d)) :
          k \in {Array(<<Str(<<"b">>), Str(<<"c">>), Str(<<"d">>)>>),
                 Array(<<Str(<<"b">>)>>)},
          d \in Texts}
  \cup {JsonNull, JsonValue("undefined", NoArray("undefined"), Undef),
        JsonValue("string", NoArray("undefined"), Undef)}

TitleInit ==
  /\ cache = <<>>
  /\ last = NoCall
  /\ PluginIdle
  /\ titleValue \in TitleValues
  /\ titleParts = [called |-> FALSE, result |-> NoParts]
  /\ NoteIdle
  /\ NormalizeIdle
  /\ CustomIdle
  /\ TagsIdle
  /\ AnyIdle

\* parseDailyTitleParts is applied to the value.
ParseTitle ==
  /\ ~titleParts.called
  /\ titleParts' =
       [called |-> TRUE, result |-> parseDailyTitleParts(titleValue)]
  /\ UNCHANGED <<titleValue, callVars, pluginVars, noteVars, normVars,
                 customVars, tagVars, anyVars>>

TitleNext == ParseTitle

TitleSpec == TitleInit /\ [][TitleNext]_vars

\* ---------------------------------- calls of normalizeCustomListTitleInput
\* The date of the list item whose title is typed.
CustomDate == <<"2", "0", "2", "5", "-", "1", "2", "-", "1", "5">>

\* What a typed or stored title is made of: the date, separators, blanks,
\* line breaks and text.
Pieces ==
  {CustomDate, <<" ">>, <<"-">>, <<"\\u2014">>, <<":">>, <<"\n">>, <<"a">>}

\* Every concatenation of at most n pieces.
RECURSIVE PieceStrings(_)
PieceStrings(n) ==
  IF n = 0 THEN {<<>>}
  ELSE LET shorter == PieceStrings(n - 1) IN
       shorter \cup {t \o piece : t \in shorter, piece \in Pieces}

\* Inputs: short ones, and ones that reach the cut at the default maxLen,
\* without and with the date in front.
CustomInputs ==
  PieceStrings(MaxPieces)
  \cup {Letters(DefaultMaxLen - 1) \o t : t \in PieceStrings(2)}
  \cup {CustomDate \o <<" ", "-", " ">> \o Letters(DefaultMaxLen - 1) \o t :
          t \in PieceStrings(2)}

\* args.maxLen as a caller may pass it (absent, or a number).
MaxLenValues == {Undef, NaN, Infinity, Num(-1), Num(0), Num(1), Num(3)}

NormalizeInit ==
  /\ cache = <<>>
  /\ last = NoCall
  /\ PluginIdle
  /\ TitleIdle
  /\ NoteIdle
  /\ CustomIdle
  /\ TagsIdle
  /\ customInput \in CustomInputs
  /\ customMaxLen = Undef
  /\ customResult = [called |-> FALSE, out |-> <<>>]
  /\ AnyIdle

\* normalizeCustomListTitleInput is applied to the input.
NormalizeInput(maxLen) ==
  /\ ~customResult.called
  /\ customMaxLen' = maxLen
  /\ customResult' =
       [called |-> TRUE,
        out |-> normalizeCustomListTitleInput(CustomDate, customInput, maxLen)]
  /\ UNCHANGED <<customInput, callVars, pluginVars, titleVars, noteVars,
                 customVars, tagVars, anyVars>>

NormalizeNext == \E maxLen \in MaxLenValues : NormalizeInput(maxLen)

NormalizeSpec == NormalizeInit /\ [][NormalizeNext]_vars

\* -------------------------------------- calls of sanitizeListItemColorTags
DayKey == DayPrefix \o CustomDate

\* Raw keys: valid ones, bare and padded, and the invalid ones of the tests.
TagKeys ==
  {DayKey, <<" ">> \o DayKey \o <<" ">>,
   FilePrefix \o <<"a">>, FilePrefix, FilePrefix \o <<"a", "\n", "b">>,
   <<"b", "a", "d", ":">> \o CustomDate, <<" ">>}

\* Raw values: colors in both lengths and cases, bare and padded, the
\* invalid ones of the tests, and values that are no string.
TagValues ==
  {Str(<<"#", "0", "F", "3">>), Str(<<"#", "A", "1", "b", "2", "C", "3">>),
   Str(<<" ", "#", "a", "b", "c", "\n">>), Str(<<"r", "e", "d">>),
   Str(<<"#", "a", "b", "c", "d">>), Str(<<"#", "g", "g", "g">>),
   Str(<<>>), Num(1), Null}

\* Mappings of at most n entries with distinct raw keys, in every order.
RECURSIVE TagMaps(_)
TagMaps(n) ==
  IF n = 0 THEN {<<>>}
  ELSE LET shorter == TagMaps(n - 1) IN
       shorter \cup
       UNION {{Append(m, [key |-> key, val |-> v]) :
                 key \in TagKeys \ KeysOf(m), v \in TagValues} :
              m \in {t \in shorter : Len(t) = n - 1}}

TagInputs ==
  {[k |-> "object", map |-> m] : m \in TagMaps(MaxTags)}
  \cup {[k |-> kind, map |-> <<>>] : kind \in {"undefined", "null", "string"}}

TagsInit ==
  /\ cache = <<>>
  /\ last = NoCall
  /\ PluginIdle
  /\ TitleIdle
  /\ NoteIdle
  /\ NormalizeIdle
  /\ CustomIdle
  /\ tagsValue \in TagInputs
  /\ tagsResult = [called |-> FALSE, out |-> <<>>]
  /\ AnyIdle

\* sanitizeListItemColorTags is applied to the value.
SanitizeTags ==
  /\ ~tagsResult.called
  /\ tagsResult' =
       [called |-> TRUE, out |-> sanitizeListItemColorTags(tagsValue)]
  /\ UNCHANGED <<tagsValue, callVars, pluginVars, titleVars, noteVars,
                 normVars, customVars, anyVars>>

TagsNext == SanitizeTags

TagsSpec == TagsInit /\ [][TagsNext]_vars

\* ------------------------------ calls of the cache functions on any value
\* What a caller may hold as its cache: a mapping with valid and malformed
\* entries, or no object at all.
AnyCaches ==
  {[k |-> "object", map |-> m] : m \in RawMaps(MaxRaw - 1, RawValues)}
  \cup {[k |-> kind, map |-> <<>>] : kind \in {"undefined", "null", "number"}}

AnyInit ==
  /\ cache = <<>>
  /\ last = NoCall
  /\ PluginIdle
  /\ TitleIdle
  /\ NoteIdle
  /\ NormalizeIdle
  /\ CustomIdle
  /\ TagsIdle
  /\ anyCache \in AnyCaches
  /\ anyCall = [op |-> "none", max |-> Undef, end |-> Returned(NoRaw)]

AnySanitize ==
  /\ anyCall.op = "none"
  /\ anyCall' = [op |-> "sanitize", max |-> Undef,
                 end |-> sanitizeOfValue(anyCache)]
  /\ UNCHANGED <<anyCache, callVars, pluginVars, titleVars, noteVars,
                 normVars, customVars, tagVars>>

AnyPrune(maxEntries) ==
  /\ anyCall.op = "none"
  /\ anyCall' = [op |-> "prune", max |-> maxEntries,
                 end |-> pruneOfValue(anyCache, maxEntries)]
  /\ UNCHANGED <<anyCache, callVars, pluginVars, titleVars, noteVars,
                 normVars, customVars, tagVars>>

AnyUpsert(filePath, entry, maxEntries, now) ==
  /\ anyCall.op = "none"
  /\ anyCall' = [op |-> "upsert", max |-> maxEntries,
                 end |-> upsertOfValue(anyCache, filePath, entry, maxEntries,
                                       now)]
  /\ UNCHANGED <<anyCache, callVars, pluginVars, titleVars, noteVars,
                 normVars, customVars, tagVars>>

AnyNext ==
  \/ AnySanitize
  \/ \E maxEntries \in PruneBounds : AnyPrune(maxEntries)
  \/ \E filePath \in FilePaths, entry \in Entries,
        maxEntries \in UpsertBounds \cup {Undef}, now \in Times :
       AnyUpsert(filePath, entry, maxEntries, now)

AnySpec == AnyInit /\ [][AnyNext]_vars

\* --------------------------------------- the custom titles across startups
OtherDate == <<"2", "0", "2", "5", "-", "1", "2", "-", "1", "6">>

\* Raw keys: dates, bare and padded, and a key that is no date.
CustomKeys == {CustomDate, <<" ">> \o CustomDate, OtherDate, <<"a">>}

\* Raw values: strings, and values that are no string.
CustomValues == {Str(t) : t \in PieceStrings(MaxPieces)} \cup {Num(1), Null}

\* What the plugin data may hold as customListTitles: a mapping of one
\* entry, of two entries whose keys trim to the same date, or no object.
CustomData ==
  {[k |-> "object", map |-> <<[key |-> key, val |-> v]>>] :
     key \in CustomKeys, v \in CustomValues}
  \cup {[k |-> "object",
         map |-> <<[key |-> <<" ">> \o CustomDate, val |-> v],
                   [key |-> CustomDate, val |-> w]>>] :
          v \in {Str(<<"a">>), Null}, w \in {Str(<<"-">>), Str(<<"b">>)}}
  \cup {[k |-> kind, map |-> <<>>] : kind \in {"undefined", "null", "string"}}

CustomInit ==
  /\ cache = <<>>
  /\ last = NoCall
  /\ PluginIdle
  /\ TitleIdle
  /\ NoteIdle
  /\ NormalizeIdle
  /\ TagsIdle
  /\ AnyIdle
  /\ customData \in CustomData
  /\ customListTitles = <<>>
  /\ customLoaded = FALSE

\* A startup: loadOptions() sets the store to the sanitized customListTitles
\* of the plugin data.
LoadCustomTitles ==
  /\ customListTitles' = sanitizeCustomListTitles(customData)
  /\ customLoaded' = TRUE
  /\ UNCHANGED <<customData, callVars, pluginVars, titleVars, noteVars,
                 normVars, tagVars, anyVars>>

\* savePluginData() writes the customListTitles of the store.
SaveCustomTitles ==
  /\ customLoaded
  /\ customData' = [k |-> "object", map |-> customListTitles]
  /\ UNCHANGED <<customListTitles, customLoaded, callVars, pluginVars,
                 titleVars, noteVars, normVars, tagVars, anyVars>>

CustomNext == LoadCustomTitles \/ SaveCustomTitles

CustomSpec == CustomInit /\ [][CustomNext]_vars


\* --------------------------------------------------------------- the plugin
\* The date string of the daily note at a path (date.format("YYYY-MM-DD")).
DateStr(filePath) ==
  <<"2", "0", "2", "5", "-", "1", "2", "-", "1">>
    \o (CASE filePath = "a.md" -> <<"5">>
          [] filePath = "b.md" -> <<"6">>
          [] OTHER -> <<"7">>)

\* file.stat.mtime of a daily note: as first seen, and after a modification
FileMtimes == {Num(1), Num(2)}

\* What the generator may answer and safeParseJson make of it: both attempts
\* throw; a response that carries an error; text that is no JSON (null);
\* JSON that is no title (two keywords); a title that needs sanitizing.
TitleJson ==
  JsonValue("object",
            Array(<<Str(<<"w", ",">>), Num(0), Str(<<"d", "\n", "x">>),
                    Str(<<"p">>), Str(<<"y">>)>>),
            Str(<<"F", ".", ".">>))
ShortJson ==
  JsonValue("object", Array(<<Str(<<"w">>), Str(<<"d">>)>>), Str(<<"F">>))
Response(kind, parsed) == [kind |-> kind, parsed |-> parsed]
Responses ==
  {Response("throws", JsonNull), Response("error", TitleJson),
   Response("ok", JsonNull), Response("ok", ShortJson),
   Response("ok", TitleJson)}

\* What plugin data may hold under ollamaTitleCache when the plugin starts.
DiskValues ==
  {Prim("null"), Obj(Num(1), Str(<<>>), Undef), Obj(Num(1), TitleX, Undef),
   Obj(Num(1), TitleX, Num(MaxTime))}
DiskCaches ==
  {[k |-> "object", map |-> m] : m \in RawMaps(MaxRaw - 2, DiskValues)}
  \cup {[k |-> "null", map |-> <<>>]}

\* The setting ollamaTitleCacheMaxEntries as stored or typed: absent, or a
\* number.
SettingBounds == {Undef, Num(1), Num(2)}

PluginInit ==
  /\ cache = <<>>
  /\ last = NoCall
  /\ PureIdle
  /\ ListIdle
  /\ phase = "start"
  /\ ollamaTitleCache = <<>>
  /\ options = Num(DefaultMaxEntries)
  /\ saveDataTimer = FALSE
  /\ clock = 0
  /\ ViewIdle
  /\ \/ \E m \in SettingBounds, c \in DiskCaches :
          disk = [v2 |-> TRUE, max |-> m, cache |-> c]
     \/ \E m \in SettingBounds :
          disk = [v2 |-> FALSE, max |-> m, cache |-> NoRaw]

\* savePluginData that sets the store after every prune
savePluginDataAlwaysSets(store, timer, opts) ==
  LET prunedCache == pruneOllamaTitleCache(store, opts) IN
  [store |-> prunedCache.ret,
   timer |-> TRUE,
   written |-> [v2 |-> TRUE, max |-> opts,
                cache |-> [k |-> "object", map |-> prunedCache.ret]]]

\* savePluginData that hands this.data.ollamaTitleCache to saveData as it is
savePluginDataUnpruned(store, timer, opts) ==
  [store |-> store,
   timer |-> timer,
   written |-> [v2 |-> TRUE, max |-> opts,
                cache |-> [k |-> "object", map |-> store]]]

\* savePluginData() with this.data.ollamaTitleCache = store and
\* this.options = opts: the store and the timer afterwards, and the data
\* handed to saveData.  Setting the store runs the subscriber of onload, which
\* schedules a save.
savePluginData(store, timer, opts) ==
  LET prunedCache == pruneOllamaTitleCache(store, opts) IN
  [store |-> prunedCache.ret,
   timer |-> IF prunedCache.alias THEN timer ELSE TRUE,
   written |-> [v2 |-> TRUE, max |-> opts,
                cache |-> [k |-> "object", map |-> prunedCache.ret]]]

\* onload(): loadOptions() and the save that ends it.  isLoadingData keeps
\* the subscribers from scheduling a save while the stores are filled.  The
\* ollamaTitlesEnabled setting comes with the loaded settings.
Onload ==
  /\ phase = "start"
  /\ LET cacheData == IF disk.v2 THEN disk.cache ELSE NoRaw
         merged == IF disk.max = Undef THEN Num(DefaultMaxEntries) ELSE disk.max
         sanitizedCache ==
           pruneOllamaTitleCache(sanitizeOllamaTitleCache(cacheData).ret,
                                 merged).ret
         s == savePluginData(sanitizedCache, FALSE, merged)
     IN /\ options' = merged
        /\ ollamaTitleCache' = s.store
        /\ saveDataTimer' = s.timer
        /\ disk' = s.written
  /\ phase' = "loaded"
  /\ ollamaTitlesEnabled' \in BOOLEAN
  /\ UNCHANGED <<clock, fileMtime, listItems, titleInFlight, requests,
                 callVars, pureVars,
                 listVars>>

\* The daily notes that are edited while the plugin runs.
EditedNotes == {"a.md"}

\* A daily note is modified in the vault.
ModifyFile(filePath) ==
  /\ phase = "loaded"
  /\ fileMtime[filePath] = Num(1)
  /\ fileMtime' = [fileMtime EXCEPT ![filePath] = Num(2)]
  /\ UNCHANGED <<phase, ollamaTitleCache, options, saveDataTimer, disk, clock,
                 ollamaTitlesEnabled, listItems, titleInFlight, requests,
                 callVars, pureVars,
                 listVars>>

\* computeList(): every item is built anew with the mtime its file has now.
ComputeList ==
  /\ phase = "loaded"
  /\ listItems' = fileMtime
  /\ UNCHANGED <<phase, ollamaTitleCache, options, saveDataTimer, disk, clock,
                 ollamaTitlesEnabled, fileMtime, titleInFlight, requests,
                 callVars, pureVars,
                 listVars>>

\* The list item of a daily note.
Item(filePath) ==
  [filePath |-> filePath, mtime |-> listItems[filePath],
   dateStr |-> DateStr(filePath)]

\* getCachedOllamaTitle that does not compare the mtime
getCachedAnyMtime(item, enabled, store) ==
  IF ~enabled \/ item.filePath = "" THEN Null
  ELSE IF /\ HasKey(store, item.filePath)
          /\ Get(store, item.filePath).title.s # <<>>
       THEN Get(store, item.filePath).title
       ELSE Null

\* getCachedOllamaTitle(item, enabled, cache)
getCachedOllamaTitle(item, enabled, store) ==
  IF ~enabled \/ item.filePath = "" THEN Null
  ELSE IF /\ HasKey(store, item.filePath)
          /\ Get(store, item.filePath).mtime = item.mtime
          /\ Get(store, item.filePath).title.s # <<>>
       THEN Get(store, item.filePath).title
       ELSE Null

\* The label the list shows for a daily note:
\* getCachedOllamaTitle(item, ...) ?? item.dateStr
Label(filePath) ==
  LET title == getCachedOllamaTitle(Item(filePath), ollamaTitlesEnabled,
                                    ollamaTitleCache)
  IN IF title = Null THEN Str(Item(filePath).dateStr) ELSE title

\* A generation that awaits its response: the item.mtime of the clicked item,
\* the mtime of the content cachedRead returned, the maxEntries read from
\* the settings, and whether the component that sent it is still mounted.
Request(mtime, read, maxEntries) ==
  [mtime |-> mtime, read |-> read, maxEntries |-> maxEntries,
   mounted |-> TRUE]

\* All but the i-th element of a sequence.
Without(seq, i) == SubSeq(seq, 1, i - 1) \o SubSeq(seq, i + 1, Len(seq))

\* onClickGenerateTitle(item), up to the request: nothing happens when the
\* feature is off or a generation for the path is in flight; otherwise the
\* path is marked, the settings and the note are read and the request is sent.
OnClickGenerateTitle(filePath) ==
  /\ phase = "loaded"
  /\ listItems[filePath] # Undef
  /\ IF ~ollamaTitlesEnabled \/ titleInFlight[filePath] = "true"
     THEN UNCHANGED <<titleInFlight, requests>>
     ELSE /\ titleInFlight' = [titleInFlight EXCEPT ![filePath] = "true"]
          /\ requests' =
               [requests EXCEPT ![filePath] =
                  Append(@, Request(listItems[filePath], fileMtime[filePath],
                                    IF options \in {Undef, Null}
                                    THEN Num(DefaultMaxEntries) ELSE options))]
  /\ UNCHANGED <<phase, ollamaTitleCache, options, saveDataTimer, disk, clock,
                 ollamaTitlesEnabled, fileMtime, listItems, callVars, pureVars,
                 listVars>>

\* The parts a response yields when the error of the response is not looked at
GeneratedPartsUnchecked(response) ==
  IF response.kind = "throws" THEN NoParts
  ELSE parseDailyTitleParts(response.parsed)

\* The parts a response yields, NoParts where onClickGenerateTitle throws:
\* both attempts failed, res.error is set, or the parts are null.
GeneratedParts(response) ==
  IF response.kind # "ok" THEN NoParts
  ELSE parseDailyTitleParts(response.parsed)

\* The parts of each response, and the label made of them for each note.
PartsOf == [response \in Responses |-> GeneratedParts(response)]
TitleOf ==
  [filePath \in DailyNotes |->
    [response \in {r \in Responses : PartsOf[r].ok} |->
      Str(formatDailyTitleLabel(DateStr(filePath), PartsOf[response]))]]

\* onClickGenerateTitle(item), from the response on: the label is upserted
\* under the item's path and the subscriber schedules a save, or the error is
\* shown; either way the path is unmarked.
GenerationCompletes(filePath, response) ==
  /\ phase = "loaded"
  /\ \E i \in 1..Len(requests[filePath]) :
       LET request == requests[filePath][i]
           generated == PartsOf[response]
           title == TitleOf[filePath][response]
       IN /\ IF generated.ok
             THEN /\ clock < MaxTime
                  /\ ollamaTitleCache' =
                       upsertOllamaTitleCacheEntry(ollamaTitleCache, filePath,
                         [mtime |-> request.mtime, title |-> title],
                         request.maxEntries, Num(clock)).ret
                  /\ saveDataTimer' = TRUE
                  /\ clock' = clock + 1
             ELSE UNCHANGED <<ollamaTitleCache, saveDataTimer, clock>>
          /\ requests' = [requests EXCEPT ![filePath] = Without(@, i)]
          /\ titleInFlight' =
               IF request.mounted
               THEN [titleInFlight EXCEPT ![filePath] = "false"]
               ELSE titleInFlight
  /\ UNCHANGED <<phase, options, disk, ollamaTitlesEnabled, fileMtime,
                 listItems, callVars, pureVars,
                 listVars>>

\* The calendar view is closed and opened again (onClose, onOpen): the
\* component is unmounted and a new one mounted, with no list and an empty
\* titleInFlight.  The requests of the old component stay in flight.  At
\* most one component is replaced while its requests are in flight.
RemountView ==
  /\ phase = "loaded"
  /\ \A p \in DailyNotes : \A i \in 1..Len(requests[p]) :
       requests[p][i].mounted
  /\ titleInFlight' = [p \in DailyNotes |-> "undefined"]
  /\ listItems' = [p \in DailyNotes |-> Undef]
  /\ requests' =
       [p \in DailyNotes |->
         [i \in 1..Len(requests[p]) |->
           [requests[p][i] EXCEPT !.mounted = FALSE]]]
  /\ UNCHANGED <<phase, ollamaTitleCache, options, saveDataTimer, disk, clock,
                 ollamaTitlesEnabled, fileMtime, callVars, pureVars,
                 listVars>>

\* The timer of scheduleSaveData fires.
SaveTimerFires ==
  /\ phase = "loaded"
  /\ saveDataTimer
  /\ LET s == savePluginData(ollamaTitleCache, FALSE, options) IN
     /\ ollamaTitleCache' = s.store
     /\ saveDataTimer' = s.timer
     /\ disk' = s.written
  /\ UNCHANGED <<phase, options, clock, viewVars, callVars, pureVars,
                 listVars>>

\* clearGeneratedTitles that saves without emptying the store
ClearOnlySaves ==
  /\ phase = "loaded"
  /\ LET s == savePluginData(ollamaTitleCache, saveDataTimer, options) IN
     /\ ollamaTitleCache' = s.store
     /\ saveDataTimer' = s.timer
     /\ disk' = s.written
  /\ UNCHANGED <<phase, options, clock, viewVars, callVars, pureVars,
                 listVars>>

\* clearGeneratedTitles()
ClearGeneratedTitles ==
  /\ phase = "loaded"
  /\ LET s == savePluginData(<<>>, TRUE, options) IN
     /\ ollamaTitleCache' = s.store
     /\ saveDataTimer' = s.timer
     /\ disk' = s.written
  /\ UNCHANGED <<phase, options, clock, viewVars, callVars, pureVars,
                 listVars>>

\* writeOptions() from the "Generated title cache size" field
WriteOptions(maxEntries) ==
  /\ phase = "loaded"
  /\ options' = maxEntries
  /\ LET s == savePluginData(ollamaTitleCache, saveDataTimer, maxEntries) IN
     /\ ollamaTitleCache' = s.store
     /\ saveDataTimer' = s.timer
     /\ disk' = s.written
  /\ UNCHANGED <<phase, clock, viewVars, callVars, pureVars,
                 listVars>>

\* writeOptions() from the "Generated titles" toggle
WriteTitlesEnabled(enabled) ==
  /\ phase = "loaded"
  /\ ollamaTitlesEnabled' = enabled
  /\ LET s == savePluginData(ollamaTitleCache, saveDataTimer, options) IN
     /\ ollamaTitleCache' = s.store
     /\ saveDataTimer' = s.timer
     /\ disk' = s.written
  /\ UNCHANGED <<phase, options, clock, fileMtime, listItems, titleInFlight,
                 requests, callVars, pureVars,
                 listVars>>

\* onunload()
Onunload ==
  /\ phase = "loaded"
  /\ phase' = "unloaded"
  /\ saveDataTimer' = FALSE
  /\ UNCHANGED <<ollamaTitleCache, options, disk, clock, viewVars, callVars, pureVars,
                 listVars>>

PluginNext ==
  \/ Onload
  \/ \E filePath \in EditedNotes : ModifyFile(filePath)
  \/ ComputeList
  \/ \E filePath \in DailyNotes : OnClickGenerateTitle(filePath)
  \/ \E filePath \in DailyNotes, response \in Responses :
       GenerationCompletes(filePath, response)
  \/ SaveTimerFires
  \/ ClearGeneratedTitles
  \/ \E maxEntries \in SettingBounds : WriteOptions(maxEntries)
  \/ \E enabled \in BOOLEAN : WriteTitlesEnabled(enabled)
  \/ Onunload

PluginSpec == PluginInit /\ [][PluginNext]_vars

\* The plugin loaded with no plugin data and generated titles switched on,
\* before the view has computed its list.
ViewInit ==
  /\ cache = <<>>
  /\ last = NoCall
  /\ PureIdle
  /\ ListIdle
  /\ phase = "loaded"
  /\ ollamaTitleCache = <<>>
  /\ options = Num(DefaultMaxEntries)
  /\ saveDataTimer = FALSE
  /\ disk = savePluginData(<<>>, FALSE, Num(DefaultMaxEntries)).written
  /\ clock = 0
  /\ ollamaTitlesEnabled = TRUE
  /\ fileMtime = [p \in DailyNotes |-> Num(1)]
  /\ listItems = [p \in DailyNotes |-> Undef]
  /\ titleInFlight = [p \in DailyNotes |-> "undefined"]
  /\ requests = [p \in DailyNotes |-> <<>>]

\* The list view over the loaded plugin, closed and reopened.
ViewNext ==
  \/ \E filePath \in EditedNotes : ModifyFile(filePath)
  \/ ComputeList
  \/ \E filePath \in DailyNotes : OnClickGenerateTitle(filePath)
  \/ \E filePath \in DailyNotes, response \in Responses :
       GenerationCompletes(filePath, response)
  \/ RemountView
  \/ SaveTimerFires

ViewSpec == ViewInit /\ [][ViewNext]_vars

\* ------------------------------------- the runs of computeList (part_004)
\* The note whose item the i-th chunk of a run yields.  Of the 10 files of
\* a chunk the model follows one.
ChunkNote(i) == IF i = 1 THEN "a.md" ELSE "b.md"

NoItems == [p \in DailyNotes |-> Undef]

\* What a run writes when it has all its items: the open-state maps get an
\* entry for every item and lose the others, listGroups gets the items, and
\* the finally block clears listLoading.
Publish(items) ==
  /\ dayOpenState' = {p \in DailyNotes : items[p] # Undef}
  /\ listItems' = items
  /\ listLoading' = FALSE

\* computeList() up to its first await.  With no file there is none, and
\* the run ends at once with an empty list.
StartComputeList(chunks) ==
  /\ phase = "loaded"
  /\ listComputeNonce < MaxRuns
  /\ listComputeNonce' = listComputeNonce + 1
  /\ listError' = Null
  /\ IF chunks = 0
     THEN /\ Publish(NoItems)
          /\ runs' = [runs EXCEPT ![listComputeNonce + 1] =
                        [pc |-> "returned", chunk |-> 0, chunks |-> 0,
                         items |-> NoItems]]
     ELSE /\ listLoading' = TRUE
          /\ runs' = [runs EXCEPT ![listComputeNonce + 1] =
                        [pc |-> "awaiting", chunk |-> 1, chunks |-> chunks,
                         items |-> NoItems]]
          /\ UNCHANGED <<dayOpenState, listItems>>
  /\ UNCHANGED <<phase, ollamaTitleCache, options, saveDataTimer, disk, clock,
                 ollamaTitlesEnabled, fileMtime, titleInFlight, requests,
                 callVars, pureVars>>

\* The reads of a chunk resolve, and the run goes on without looking at
\* the nonce
ChunkResolvesUnchecked(nonce) ==
  /\ phase = "loaded"
  /\ runs[nonce].pc = "awaiting"
  /\ LET run == runs[nonce]
         note == ChunkNote(run.chunk)
         items == [run.items EXCEPT ![note] = fileMtime[note]]
     IN IF run.chunk < run.chunks
          THEN /\ runs' = [runs EXCEPT ![nonce] =
                             [run EXCEPT !.chunk = @ + 1, !.items = items]]
               /\ UNCHANGED <<dayOpenState, listItems, listLoading>>
        ELSE /\ runs' = [runs EXCEPT ![nonce] =
                           [run EXCEPT !.pc = "returned", !.items = items]]
             /\ Publish(items)
  /\ UNCHANGED <<phase, ollamaTitleCache, options, saveDataTimer, disk, clock,
                 ollamaTitlesEnabled, fileMtime, titleInFlight, requests,
                 callVars, pureVars, listComputeNonce, listError>>

\* The reads of the chunk a run awaits resolve: the run returns when it has
\* been superseded; else it takes the item, and awaits the next chunk or,
\* after the last one, builds the groups and writes them.
ChunkResolves(nonce) ==
  /\ phase = "loaded"
  /\ runs[nonce].pc = "awaiting"
  /\ LET run == runs[nonce]
         note == ChunkNote(run.chunk)
         items == [run.items EXCEPT ![note] = fileMtime[note]]
     IN IF nonce # listComputeNonce
          THEN /\ runs' = [runs EXCEPT ![nonce] = [run EXCEPT !.pc = "returned"]]
               /\ UNCHANGED <<dayOpenState, listItems, listLoading>>
        ELSE IF run.chunk < run.chunks
          THEN /\ runs' = [runs EXCEPT ![nonce] =
                             [run EXCEPT !.chunk = @ + 1, !.items = items]]
               /\ UNCHANGED <<dayOpenState, listItems, listLoading>>
        ELSE /\ runs' = [runs EXCEPT ![nonce] =
                           [run EXCEPT !.pc = "returned", !.items = items]]
             /\ Publish(items)
  /\ UNCHANGED <<phase, ollamaTitleCache, options, saveDataTimer, disk, clock,
                 ollamaTitlesEnabled, fileMtime, titleInFlight, requests,
                 callVars, pureVars, listComputeNonce, listError>>

\* A read of the chunk a run awaits fails: the catch block returns when the
\* run has been superseded, else it writes the error and an empty list, and
\* the finally block clears listLoading.
ChunkRejects(nonce) ==
  /\ phase = "loaded"
  /\ runs[nonce].pc = "awaiting"
  /\ runs' = [runs EXCEPT ![nonce] = [@ EXCEPT !.pc = "returned"]]
  /\ IF nonce # listComputeNonce
       THEN UNCHANGED <<listError, listItems, listLoading>>
     ELSE /\ listError' = Str(<<"e">>)
          /\ listItems' = NoItems
          /\ listLoading' = FALSE
  /\ UNCHANGED <<phase, ollamaTitleCache, options, saveDataTimer, disk, clock,
                 ollamaTitlesEnabled, fileMtime, titleInFlight, requests,
                 callVars, pureVars, listComputeNonce, dayOpenState>>

ListInit == ViewInit

\* The list view while daily notes are modified and the list is recomputed.
ListNext ==
  \/ \E filePath \in EditedNotes : ModifyFile(filePath)
  \/ \E chunks \in 0..MaxChunks : StartComputeList(chunks)
  \/ \E nonce \in 1..MaxRuns : ChunkResolves(nonce)
  \/ \E nonce \in 1..MaxRuns : ChunkRejects(nonce)

ListSpec == ListInit /\ [][ListNext]_vars

\* ------------------------------------------------------------- properties
PositiveInt(v) == v.k = "number" /\ v.n > 0
HasLastUsed(val) == val.lastUsed.k = "number"
\* The entry (key and value) occurs in the cache.
Holds(c, e) == \E i \in 1..Len(c) : c[i] = e

\* C1: for a positive integer maxEntries the result of prune has at most
\* maxEntries entries, exactly maxEntries when the input had more, and every
\* retained entry is an unchanged entry of the input; the result of upsert
\* called with that maxEntries has at most maxEntries entries too.
C1_PruneBound ==
  /\ (last.op = "prune" /\ PositiveInt(last.max)) =>
       /\ Len(last.ret) <= last.max.n
       /\ (Len(last.in) > last.max.n => Len(last.ret) = last.max.n)
       /\ \A i \in 1..Len(last.ret) : Holds(last.in, last.ret[i])
  /\ (last.op = "upsert" /\ PositiveInt(last.max)) =>
       Len(last.ret) <= last.max.n

C1_Witness ==
  /\ last.op = "prune" /\ last.max = Num(2)
  /\ Len(last.in) = 3 /\ Len(last.ret) = 2

\* Every entry of the cache has a lastUsed number and no two share one.
DistinctLastUsed(c) ==
  /\ \A i \in 1..Len(c) : HasLastUsed(c[i].val)
  /\ \A i, j \in 1..Len(c) :
       c[i].val.lastUsed.n = c[j].val.lastUsed.n => i = j

\* The entries of c with one of the n largest lastUsed values.
Newest(c, n) ==
  {c[i] : i \in {i \in 1..Len(c) :
     Cardinality({j \in 1..Len(c) :
        c[j].val.lastUsed.n > c[i].val.lastUsed.n}) < n}}

\* C2: when every entry has a lastUsed and all are distinct, pruning a cache
\* of more than maxEntries entries keeps exactly the maxEntries entries with
\* the largest lastUsed and evicts all others.
C2_EvictsLeastRecentlyUsed ==
  (/\ last.op = "prune" /\ PositiveInt(last.max)
   /\ Len(last.in) > last.max.n /\ DistinctLastUsed(last.in)) =>
     {last.ret[i] : i \in 1..Len(last.ret)} = Newest(last.in, last.max.n)

C2_Witness ==
  /\ last.op = "prune" /\ last.max = Num(2) /\ Len(last.in) = 3
  /\ DistinctLastUsed(last.in)
  /\ last.in[1].val.lastUsed.n > last.in[3].val.lastUsed.n
  /\ KeysOf(last.ret) = {last.in[1].key, last.in[2].key}

\* C3: whenever prune evicts an entry that has a lastUsed number, no entry
\* lacking lastUsed remains in the result.
C3_MissingLastUsedIsOldest ==
  (/\ last.op = "prune"
   /\ \E i \in 1..Len(last.in) :
        HasLastUsed(last.in[i].val) /\ ~HasKey(last.ret, last.in[i].key)) =>
     \A j \in 1..Len(last.ret) : HasLastUsed(last.ret[j].val)

\* C4: the cache upsert returns maps the file path to exactly
\* {mtime, title, lastUsed: now} of the call.
C4_UpsertFreshness ==
  last.op = "upsert" =>
    /\ HasKey(last.ret, last.key)
    /\ Get(last.ret, last.key) =
         Obj(last.entry.mtime, last.entry.title, last.now)

\* A raw value that sanitize must keep: an object whose title is a string
\* that is non-empty after trimming and whose mtime is a finite number >= 0.
ValidRaw(v) ==
  /\ v.k = "object"
  /\ v.title.k = "string" /\ \E i \in 1..Len(v.title.s) : v.title.s[i] \notin Whitespace
  /\ v.mtime.k = "number" /\ v.mtime.n >= 0

\* C6: sanitize returns exactly the entries of the input that are valid, each
\* with its mtime and title unchanged and with its lastUsed only when that is
\* a finite number; an input that is not an object yields the empty cache.
C6_SanitizeKeepsExactlyValid ==
  last.op = "sanitize" =>
    IF last.raw.k # "object" THEN last.ret = <<>>
    ELSE LET m == last.raw.map IN
         /\ KeysOf(last.ret) =
              {m[i].key : i \in {i \in 1..Len(m) : ValidRaw(m[i].val)}}
         /\ \A i \in 1..Len(m) : ValidRaw(m[i].val) =>
              LET e == Get(last.ret, m[i].key) IN
              /\ e.mtime = m[i].val.mtime
              /\ e.title = m[i].val.title
              /\ e.lastUsed = IF m[i].val.lastUsed.k = "number"
                              THEN m[i].val.lastUsed ELSE Undef

C6_Witness ==
  /\ last.op = "sanitize" /\ Len(last.raw.map) = 3 /\ Len(last.ret) = 2
  /\ \E i \in 1..3 : last.raw.map[i].val.mtime = Num(-1)
  /\ \E i \in 1..3 : /\ last.raw.map[i].val.lastUsed = Infinity
                     /\ Get(last.ret, last.raw.map[i].key).lastUsed = Undef

\* C7: sanitizing the result of sanitize gives the same cache again.
C7_SanitizeIdempotent ==
  last.op = "sanitize" =>
    sanitizeOllamaTitleCache([k |-> "object", map |-> last.ret]).ret = last.ret

C7_Witness ==
  /\ last.op = "sanitize" /\ Len(last.raw.map) = 3 /\ Len(last.ret) = 1
  /\ \E i \in 1..3 : last.raw.map[i].val.title = Str(<<" ">>)
  /\ last.ret[1].val.lastUsed = Undef

C9_InvalidBoundIsNoBound ==
  (/\ last.op = "prune"
   /\ \/ ~PositiveInt(last.max)
      \/ Len(last.in) <= last.max.n) =>
     last.ret = last.in /\ last.alias

C9_Witness ==
  /\ last.op = "prune" /\ last.max = Num(-1) /\ Len(last.in) = 3
  /\ last.ret = last.in

\* Same keys, and the same mtime and title under each key.
SameButLastUsed(c, d) ==
  /\ KeysOf(c) = KeysOf(d)
  /\ \A key \in KeysOf(c) :
       /\ Get(c, key).mtime = Get(d, key).mtime
       /\ Get(c, key).title = Get(d, key).title

\* C10: an upsert that follows an upsert with the same file path, entry and
\* maxEntries leaves the keys, and the mtime and title of each key, as the
\* first one left them.
C10_UpsertIdempotent ==
  [][(/\ last.op = "upsert" /\ last'.op = "upsert"
      /\ last'.key = last.key /\ last'.entry = last.entry
      /\ last'.max = last.max) =>
        SameButLastUsed(last.ret, last'.ret)]_vars

\* C5: every entry present in the title cache store is valid: its title is a
\* string that is non-empty after trimming, its mtime a finite number >= 0.
C5_OnlyValidEntries ==
  \A i \in 1..Len(ollamaTitleCache) : ValidRaw(ollamaTitleCache[i].val)

C5_Witness ==
  /\ phase = "loaded" /\ Len(ollamaTitleCache) = 2
  /\ ollamaTitleCache[1].val = Obj(Num(1), TitleX, Undef)
  /\ ollamaTitleCache[2].val.title # TitleX
  /\ ollamaTitleCache[2].val.lastUsed = Num(0)
  /\ saveDataTimer /\ Len(disk.cache.map) = 1

\* The cache entry of a path is set and carries the given mtime.
EntryHasMtime(filePath, mtime) ==
  /\ HasKey(ollamaTitleCache, filePath)
  /\ Get(ollamaTitleCache, filePath).mtime = mtime

\* The list shows a cached title for the item of a path.
ShowsCachedTitle(filePath) ==
  /\ listItems[filePath] # Undef
  /\ Label(filePath) # Str(DateStr(filePath))

C12_StoredMtimeIsOfContentRead ==
  [][\A filePath \in DailyNotes :
       Len(requests'[filePath]) < Len(requests[filePath]) =>
         \A response \in Responses :
           (/\ PartsOf[response].ok
            /\ GenerationCompletes(filePath, response)
            /\ HasKey(ollamaTitleCache', filePath))
           => Get(ollamaTitleCache', filePath).mtime
                = Head(requests[filePath]).read]_vars

\* A step in which savePluginData hands plugin data to saveData.
SavesPluginData ==
  \/ Onload
  \/ SaveTimerFires
  \/ ClearGeneratedTitles
  \/ \E maxEntries \in SettingBounds : WriteOptions(maxEntries)
  \/ \E enabled \in BOOLEAN : WriteTitlesEnabled(enabled)

\* C13: every cache savePluginData hands to saveData has at most
\* ollamaTitleCacheMaxEntries entries when the setting is a positive
\* integer, and at that moment the store holds the same cache.
C13_PersistedCacheIsPruned ==
  [][SavesPluginData =>
       /\ disk'.max = options'
       /\ PositiveInt(options') => Len(disk'.cache.map) <= options'.n
       /\ ollamaTitleCache' = disk'.cache.map]_vars

\* A cache that fills the bound of 1 has been written while the store had
\* seen two generations and a generation for b.md was in flight.
C13_Witness ==
  /\ phase = "loaded" /\ options = Num(1) /\ disk.max = Num(1)
  /\ Len(disk.cache.map) = 1 /\ ollamaTitleCache = disk.cache.map
  /\ clock = 2 /\ requests["b.md"] # <<>>

\* C14: when clearGeneratedTitles is done the store holds no entry, so none
\* of those it held before, and the cache written to plugin data is empty.
C14_ClearRemovesEveryTitle ==
  [][ClearGeneratedTitles =>
       /\ ollamaTitleCache' = <<>>
       /\ disk'.cache.k = "object" /\ disk'.cache.map = <<>>]_vars

\* The titles were cleared after a generation had stored one, while another
\* generation was in flight.
C14_Witness ==
  /\ phase = "loaded" /\ clock = 1
  /\ ollamaTitleCache = <<>> /\ disk.cache.map = <<>>
  /\ requests["a.md"] # <<>>

\* C15: at most one generation is in progress for a path, and a click for a
\* path whose generation is in progress starts no request and changes no
\* state.
C15_OneGenerationPerPath ==
  [][\A filePath \in DailyNotes :
       /\ Len(requests'[filePath]) <= 1
       /\ (requests[filePath] # <<>>
             /\ OnClickGenerateTitle(filePath)) => UNCHANGED vars]_vars

\* A response from which no title can be made: both attempts threw, the
\* response carries an error, its text is no JSON, or the parts are null.
FailedResponse(response) ==
  \/ response.kind \in {"throws", "error"}
  \/ response.parsed = JsonNull
  \/ ~parseDailyTitleParts(response.parsed).ok

FailedResponses == {response \in Responses : FailedResponse(response)}

\* C16: a failed generation leaves the title cache as it was.
C16_FailureKeepsCache ==
  [][\A filePath \in DailyNotes :
       Len(requests'[filePath]) < Len(requests[filePath]) =>
         \A response \in Responses :
           (response \in FailedResponses
             /\ GenerationCompletes(filePath, response))
           => UNCHANGED ollamaTitleCache]_vars

\* The generation for a.md has ended, no generation has succeeded, and the
\* cache holds the entry it was loaded with.
C16_Witness ==
  /\ titleInFlight["a.md"] = "false" /\ clock = 0
  /\ Len(ollamaTitleCache) = 1 /\ ollamaTitleCache[1].key = "a.md"

\* "<dateStr> - <kw1> <kw2> <kw3> - <description>"
ExpectedLabel(dateStr, p) ==
  dateStr \o <<" ", "-", " ">>
          \o p.keywords[1] \o <<" ">> \o p.keywords[2] \o <<" ">>
          \o p.keywords[3]
          \o <<" ", "-", " ">> \o p.description

ExpectedTitle ==
  [filePath \in DailyNotes |->
    [response \in Responses \ FailedResponses |->
      Str(ExpectedLabel(DateStr(filePath),
                        parseDailyTitleParts(response.parsed)))]]

\* C17: the title a successful generation upserts under the path is the
\* date string, " - ", the three keywords joined by single spaces, " - ",
\* and the description of the parsed parts.
C17_UpsertedTitleIsLabel ==
  [][\A filePath \in DailyNotes :
       Len(requests'[filePath]) < Len(requests[filePath]) =>
         \A response \in Responses :
           (/\ response \notin FailedResponses
            /\ GenerationCompletes(filePath, response)
            /\ HasKey(ollamaTitleCache', filePath))
           => Get(ollamaTitleCache', filePath).title =
                ExpectedTitle[filePath][response]]_vars

\* The cache holds "2025-12-15 - w d p - F." for a.md.
C17_Witness ==
  /\ HasKey(ollamaTitleCache, "a.md")
  /\ Get(ollamaTitleCache, "a.md").title =
       Str(<<"2", "0", "2", "5", "-", "1", "2", "-", "1", "5", " ", "-", " ",
             "w", " ", "d", " ", "p", " ", "-", " ", "F", ".">>)

\* The value is an object with an array of at least three keywords that are
\* non-empty after sanitizing and a string description that is non-empty
\* after sanitizing.
WellFormed(v) ==
  /\ v.k = "object"
  /\ v.keywords.k = "array"
  /\ IsString(v.description)
  /\ Len(SanitizedWords(v.keywords.items)) >= 3
  /\ sanitizeDescription(v.description.s) # <<>>

\* C18: parseDailyTitleParts returns null for a value that is no object,
\* whose keywords are no sequence, whose description is no string, that has
\* fewer than 3 keywords non-empty after sanitizing, or whose description is
\* empty after sanitizing; otherwise it returns the first 3 non-empty
\* sanitized keywords in source order with the sanitized description.
C18_ParseAllOrNothing ==
  titleParts.called =>
    titleParts.result =
      IF WellFormed(titleValue)
      THEN Parts(SubSeq(SanitizedWords(titleValue.keywords.items), 1, 3),
                 sanitizeDescription(titleValue.description.s))
      ELSE NoParts

\* A value of four keywords of which the second is empty after sanitizing
\* has been parsed: the result has the first, third and fourth.
C18_Witness ==
  /\ titleParts.called
  /\ titleValue.keywords =
       Array(<<Str(<<"b">>), Str(<<",", " ">>), Str(<<"c">>), Str(<<"d">>)>>)
  /\ titleParts.result = Parts(<<<<"b">>, <<"c">>, <<"d">>>>, <<"F", ".">>)

\* C19: every keyword of a non-null result is non-empty, has no whitespace,
\* and neither begins nor ends with a character that is no letter or digit.
C19_KeywordsAreTokens ==
  (titleParts.called /\ titleParts.result.ok) =>
    \A i \in 1..Len(titleParts.result.keywords) :
      LET word == titleParts.result.keywords[i] IN
      /\ word # <<>>
      /\ \A j \in 1..Len(word) : word[j] \notin Whitespace
      /\ word[1] \in LettersAndNumbers
      /\ word[Len(word)] \in LettersAndNumbers

\* C20: the description of a non-null result is non-empty, has no leading
\* or trailing whitespace, no line break or tab, no run of two or more
\* whitespace characters, at most 120 characters, and does not end with two
\* or more characters from '.', '!', '?'.
C20_DescriptionIsClean ==
  (titleParts.called /\ titleParts.result.ok) =>
    LET d == titleParts.result.description IN
    /\ d # <<>>
    /\ d[1] \notin Whitespace /\ d[Len(d)] \notin Whitespace
    /\ \A j \in 1..Len(d) : d[j] \notin LineOrTab
    /\ \A j \in 1..(Len(d) - 1) :
         ~(d[j] \in Whitespace /\ d[j + 1] \in Whitespace)
    /\ Len(d) <= 120
    /\ TrailingPunctuation(d) < 2

\* A description that was cut at 120 characters, trimmed after the cut and
\* left with one terminal mark.
C20_Witness ==
  /\ titleParts.called /\ titleParts.result.ok
  /\ IsString(titleValue.description)
  /\ titleValue.description.s = Letters(MAX - 2) \o <<"!", " ", "a", ".">>
  /\ titleParts.result.description = Letters(MAX - 2) \o <<"!">>

\* ------------------------------------------------- stripYamlFrontmatter
\* out is what the contract of stripYamlFrontmatter allows for text, when
\* IsFence tells which lines are fence lines: the text itself unless its
\* first line is a fence, it has 3 lines or more and a later line is a
\* fence; else the lines after the first later fence, joined by line feeds.
FrontmatterContract(text, out, IsFence(_)) ==
  LET lines == SplitLines(text)
      later == {i \in 2..Len(lines) : IsFence(lines[i])}
  IN
  IF ~IsFence(lines[1]) \/ Len(lines) < 3 \/ later = {} THEN out = text
  ELSE \E i \in later :
         /\ \A j \in later : i <= j
         /\ i = Len(lines) => out = <<>>
         /\ i < Len(lines) => Len(SplitLines(out)) = Len(lines) - i
         /\ \A k \in 1..(Len(lines) - i) : SplitLines(out)[k] = lines[i + k]
         /\ \A k \in 1..Len(out) : out[k] # "\r"

ExactFence(line) == line = <<"-", "-", "-">>
TrimmedFence(line) == Trim(line) = <<"-", "-", "-">>

\* C21 as stated: a fence line is a line that is exactly `---`.
C21_StripsByExactFence ==
  noteResult.called =>
    FrontmatterContract(noteText, noteResult.stripped, ExactFence)

\* C21 amended: stripYamlFrontmatter returns the text unchanged when its
\* first line, trimmed of surrounding whitespace, is not `---`, when the
\* text has fewer than 3 lines, or when no later line trims to `---`;
\* otherwise it returns exactly the lines strictly after the first later
\* line that trims to `---`, joined by line feeds.
C21_StripsByTrimmedFence ==
  noteResult.called =>
    FrontmatterContract(noteText, noteResult.stripped, TrimmedFence)

\* A note with front matter closed by two fences has been stripped.
C21_Witness ==
  /\ noteResult.called
  /\ noteResult.stripped # noteText
  /\ Cardinality({i \in 2..Len(SplitLines(noteText)) :
                    TrimmedFence(SplitLines(noteText)[i])}) >= 2
  /\ noteResult.stripped # <<>>

\* --------------------------------------------- prepareNoteTextForOllama
\* The maximal runs of characters of s that are no whitespace, in order.
RECURSIVE NoteWords(_, _)
NoteWords(s, word) ==
  IF s = <<>> THEN (IF word = <<>> THEN <<>> ELSE <<word>>)
  ELSE IF Head(s) \in Whitespace
    THEN (IF word = <<>> THEN <<>> ELSE <<word>>) \o NoteWords(Tail(s), <<>>)
  ELSE NoteWords(Tail(s), Append(word, Head(s)))

\* The words of s with one space between neighbours.
Collapsed(s) ==
  LET words == NoteWords(s, <<>>)
      n == Len(words)
      flat[i \in 0..n] ==
        IF i = 0 THEN <<>>
        ELSE IF i = 1 THEN words[1]
        ELSE flat[i - 1] \o <<" ">> \o words[i]
  IN flat[n]

\* C22: prepareNoteTextForOllama returns the collapsed, trimmed text left by
\* stripYamlFrontmatter as it is when maxChars is no positive finite number,
\* and else its first maxChars characters: a prefix of it, never longer than
\* maxChars.
C22_PreparedIsCollapsedPrefix ==
  noteResult.called =>
    LET collapsed == Collapsed(noteResult.stripped)
        out == noteResult.prepared
    IN IF noteMaxChars.k = "number" /\ noteMaxChars.n > 0
         THEN /\ Len(out) <= noteMaxChars.n
              /\ Len(out) <= Len(collapsed)
              /\ out = SubSeq(collapsed, 1, Len(out))
              /\ Len(out) < noteMaxChars.n => out = collapsed
         ELSE out = collapsed

\* A note with front matter and several words has been cut to 2 characters.
C22_Witness ==
  /\ noteResult.called
  /\ noteMaxChars = Num(2)
  /\ noteResult.stripped # noteText
  /\ Len(NoteWords(noteResult.stripped, <<>>)) >= 2
  /\ Len(noteResult.prepared) = 2

\* ----------------------------------------- normalizeCustomListTitleInput
\* The maxLen in effect: args.maxLen when it is a positive number, else 240.
\* Infinity bounds nothing.
WithinMaxLen(n, maxLen) ==
  IF maxLen.k = "inf" THEN TRUE
  ELSE IF maxLen.k = "number" /\ maxLen.n > 0 THEN n <= maxLen.n
  ELSE n <= 240

\* s without its first n characters
After(s, n) == SubSeq(s, n + 1, Len(s))

\* The collapsed input without the date it begins with and the separators
\* that follow the date; the collapsed input when it begins otherwise.
Suffix(input) ==
  LET collapsed == Collapsed(input)
      d == Len(CustomDate)
      rest == After(collapsed, d)
      skipped == {n \in 0..Len(rest) : \A i \in 1..n : rest[i] \in Separators}
      run == CHOOSE n \in skipped : \A m \in skipped : m <= n
  IN IF Len(collapsed) >= d /\ SubSeq(collapsed, 1, d) = CustomDate
       THEN After(rest, run)
       ELSE collapsed

TagKeyMatches(key) ==
  \/ /\ Len(key) = 14
     /\ SubSeq(key, 1, 4) = <<"d", "a", "y", ":">>
     /\ \A i \in {5, 6, 7, 8, 10, 11, 13, 14} : key[i] \in Digits
     /\ key[9] = "-" /\ key[12] = "-"
  \/ /\ Len(key) > 5
     /\ SubSeq(key, 1, 5) = <<"f", "i", "l", "e", ":">>

\* The same, the rest of a file key holding no line break.
TagKeyMatchesOnOneLine(key) ==
  /\ TagKeyMatches(key)
  /\ \A i \in 1..Len(key) : key[i] \notin {"\n", "\r"}

CanonicalDigits ==
  {"0", "1", "2", "3", "4", "5", "6", "7", "8", "9",
   "a", "b", "c", "d", "e", "f"}

\* The hexadecimal digits a canonical digit may have been written as.
WrittenAs(c) ==
  CASE c = "a" -> {"a", "A"} [] c = "b" -> {"b", "B"} [] c = "c" -> {"c", "C"}
    [] c = "d" -> {"d", "D"} [] c = "e" -> {"e", "E"} [] c = "f" -> {"f", "F"}
    [] OTHER -> {c}

\* color is the canonical lowercase 6-digit form of the color written.
CanonicalOf(color, written) ==
  /\ Len(color) = 7 /\ color[1] = "#"
  /\ \A i \in 2..7 : color[i] \in CanonicalDigits
  /\ Len(written) \in {4, 7} /\ written[1] = "#"
  /\ Len(written) = 7 => \A i \in 2..7 : written[i] \in WrittenAs(color[i])
  /\ Len(written) = 4 =>
       \A i \in 2..4 : /\ written[i] \in WrittenAs(color[2 * i - 2])
                       /\ color[2 * i - 1] = color[2 * i - 2]

\* written is a `#`-prefixed color of 3 or 6 hexadecimal digits.
IsColor(written) ==
  /\ Len(written) \in {4, 7} /\ written[1] = "#"
  /\ \A i \in 2..Len(written) :
       \E c \in CanonicalDigits : written[i] \in WrittenAs(c)

\* out holds exactly the entries of raw that Valid accepts, the last one
\* of those that share a trimmed key, each under its trimmed key with the
\* canonical form of the color that Written finds in its value.
TagsContract(raw, out, Valid(_), Written(_)) ==
  LET Kept(i) ==
        /\ Valid(i)
        /\ \A j \in (i + 1)..Len(raw) :
             Valid(j) => Trim(raw[j].key) # Trim(raw[i].key)
      From(j, i) ==
        /\ out[j].key = Trim(raw[i].key)
        /\ CanonicalOf(out[j].val, Written(i))
  IN /\ \A i \in 1..Len(raw) : Kept(i) => \E j \in 1..Len(out) : From(j, i)
     /\ \A j \in 1..Len(out) : \E i \in 1..Len(raw) : Kept(i) /\ From(j, i)
     /\ \A j, k \in 1..Len(out) : out[j].key = out[k].key => j = k

\* C24 as stated: the value itself is the color, and any non-empty rest
\* makes a file key.
C24_KeepsExactlyValidTags ==
  tagsResult.called =>
    LET raw == tagsValue.map
        Valid(i) == /\ TagKeyMatches(Trim(raw[i].key))
                    /\ raw[i].val.k = "string" /\ IsColor(raw[i].val.s)
        Written(i) == raw[i].val.s
    IN TagsContract(raw, tagsResult.out, Valid, Written)

\* C24 amended: sanitizeListItemColorTags returns exactly the entries whose
\* trimmed key matches `day:YYYY-MM-DD` or `file:` followed by a non-empty
\* rest without line breaks and whose trimmed value is a `#`-prefixed 3- or
\* 6-hex-digit color, under the trimmed key (the last such entry when
\* several share it); every value in the result is in canonical lowercase
\* 6-digit form.  An entry with an invalid key or color is dropped, never
\* replaced by a fallback color, and does not affect the other entries.
C24_KeepsExactlyTrimmedValidTags ==
  tagsResult.called =>
    LET raw == tagsValue.map
        Valid(i) == /\ TagKeyMatchesOnOneLine(Trim(raw[i].key))
                    /\ raw[i].val.k = "string" /\ IsColor(Trim(raw[i].val.s))
        Written(i) == Trim(raw[i].val.s)
    IN TagsContract(raw, tagsResult.out, Valid, Written)

\* A mapping with a valid 3-digit color and an invalid entry has been
\* sanitized to the one canonical entry.
C24_Witness ==
  /\ tagsResult.called
  /\ Len(tagsValue.map) = 2
  /\ Len(tagsResult.out) = 1
  /\ tagsResult.out[1].val = <<"#", "0", "0", "f", "f", "3", "3">>

\* ------------------------------------------------ totality of the cache
\* C25: sanitizeOllamaTitleCache, pruneOllamaTitleCache and
\* upsertOllamaTitleCacheEntry never throw for malformed cache input: a null
\* or absent cache, a cache that is no object, entries that are null or of
\* the wrong type.
C25_CacheOperationsNeverThrow == ~anyCall.end.threw

\* ------------------------------------------- persistence of generated titles
\* The plugin data on disk holds the title the store holds for filePath.
Persisted(filePath) ==
  /\ disk.cache.k = "object"
  /\ HasKey(disk.cache.map, filePath)
  /\ Get(disk.cache.map, filePath).mtime = Get(ollamaTitleCache, filePath).mtime
  /\ Get(disk.cache.map, filePath).title = Get(ollamaTitleCache, filePath).title

\* C26: a generated title that the store holds (it was neither evicted nor
\* cleared) is written to plugin data in the end, also when the plugin is
\* unloaded: once the plugin is unloaded, which writes nothing any more,
\* every title of the store is in the plugin data.
C26_GeneratedTitlesArePersisted ==
  phase = "unloaded" =>
    \A filePath \in KeysOf(ollamaTitleCache) : Persisted(filePath)

\* ------------------------------------------------------ lastUsed on a read
\* The label of a path is read anew for display, with a hit: what the call
\* getCachedOllamaTitle(item, $settings.ollamaTitlesEnabled,
\* $ollamaTitleCache) of the list depends on has changed, and the call
\* returns the cached title.
ReadForDisplay(filePath) ==
  /\ <<listItems[filePath], ollamaTitlesEnabled, ollamaTitleCache>>'
       # <<listItems[filePath], ollamaTitlesEnabled, ollamaTitleCache>>
  /\ ShowsCachedTitle(filePath)'

\* C27: whenever a cached title is read for display (a hit in
\* getCachedOllamaTitle) or written by upsert, the lastUsed of its entry
\* becomes the time of that access: after the step it is a number not
\* before the time the step began.
C27_LastUsedIsLastAccess ==
  [][\A filePath \in DailyNotes :
       ReadForDisplay(filePath) =>
         LET lastUsed == Get(ollamaTitleCache', filePath).lastUsed IN
         lastUsed.k = "number" /\ lastUsed.n >= clock]_vars

\* ------------------------------------------------ superseded computeList
\* What computeList publishes.
Published == <<listItems, listError, dayOpenState, listLoading>>

\* C28: a run of computeList that goes on after a newer run has started
\* writes none of listGroups, listError, the open-state maps and
\* listLoading; listLoading is set back to false only by a step of the run
\* started last.
C28_SupersededRunPublishesNothing ==
  [][/\ \A nonce \in 1..MaxRuns :
          (/\ runs[nonce].pc = "awaiting"
           /\ runs'[nonce] # runs[nonce]
           /\ nonce # listComputeNonce)
            => UNCHANGED Published
     /\ listLoading /\ ~listLoading' =>
          runs'[listComputeNonce'] # runs[listComputeNonce']]_vars

\* The first run has returned before its last chunk, superseded by the
\* second, which has published the items of both notes.
C28_Witness ==
  /\ listComputeNonce = 2
  /\ runs[1].pc = "returned" /\ runs[1].chunk < runs[1].chunks
  /\ runs[2].pc = "returned" /\ runs[2].chunks = 2
  /\ listItems = runs[2].items /\ listItems["b.md"] # Undef
  /\ ~listLoading

\* ------------------------------------------------------- the save cycle
\* The store holds what the last save wrote, under the setting it used: no
\* update has arrived since.
NothingToSave ==
  /\ disk.cache.k = "object" /\ disk.cache.map = ollamaTitleCache
  /\ disk.max = options

\* C29: a save of the debounce timer schedules a further save only when its
\* pruning removed entries from the store; a save that finds the store as
\* the last save wrote it prunes nothing, writes the same data and leaves no
\* timer pending.
C29_SaveCycleTerminates ==
  [][SaveTimerFires =>
       /\ saveDataTimer' => Len(ollamaTitleCache') < Len(ollamaTitleCache)
       /\ NothingToSave =>
            /\ ~saveDataTimer'
            /\ ollamaTitleCache' = ollamaTitleCache
            /\ disk' = disk]_vars

\* The store, pruned to the bound of 1, holds a generated title that has
\* been written, and a save is pending that has nothing to save.
C29_Witness ==
  /\ phase = "loaded" /\ saveDataTimer
  /\ NothingToSave
  /\ options = Num(1) /\ Len(ollamaTitleCache) = 1
  /\ Len(ollamaTitleCache[1].val.title.s) > 1
  /\ ollamaTitleCache[1].val.lastUsed = Num(0)

\* ------------------------------------------- custom titles are loaded back
\* C30: sanitizeCustomListTitles is idempotent: a startup that loads the
\* custom titles an earlier startup sanitized and a save wrote sets the
\* store to the same titles.
C30_SanitizeCustomTitlesIdempotent ==
  [][(/\ customLoaded
      /\ customData = [k |-> "object", map |-> customListTitles])
       => customListTitles' = customListTitles]_vars
====
